---- MODULE Spec2Model ----
(***************************************************************************)
(* Job application bot: the application ledger (database.py), the dispatch *)
(* loops of main.py and main_parallel.py, the scheduler (scheduler_config, *)
(* main_parallel_scheduled.py) with the end-of-day reset, and the parallel *)
(* harvest (scraper_parallel.py), over one ledger file applied_jobs.csv.   *)
(*                                                                         *)
(*   Spec         the entry points main.py and main_parallel.py, run once  *)
(*                after another, over the ledger                           *)
(*   SchedSpec    schedule_bot driving process_applications_parallel of    *)
(*                main_parallel_scheduled.py                               *)
(*   HarvestSpec  one call of scrape_jobs_parallel, with its sessions      *)
(*   FactorySpec  threads calling setup_driver / get_chrome_service        *)
(*   FilterSpec   is_relevant_job and extract_years_experience on a title  *)
(*   PaceSpec     as Spec, over a site with three postings                 *)
(*                                                                         *)
(* Texts (job ids, e-mail addresses, URLs) are sequences of one-character  *)
(* strings, so that str.lower(), the CSV writer and the type inference of  *)
(* the CSV reader are computed and not assumed.                            *)
(***************************************************************************)
EXTENDS Integers, Sequences, FiniteSets, TLC

VARIABLES
    csv_exists,   \* os.path.exists(CSV_FILE)
    csv_rows,     \* the data rows of applied_jobs.csv, as written text
    clock,        \* wall clock: [day, hour, minute, second]
    mode,         \* which entry point is running: "seq" (main.py), "par"
                  \* (main_parallel.py), "sched" (main_parallel_scheduled.py),
                  \* or "none"
    pc,           \* position of the running process; "off": not running,
                  \* "crashed": ended by an uncaught exception
    harvest,      \* jobs returned by the scraper in this cycle
    jobs,         \* the list the send loop iterates (jobs / filtered_jobs)
    idx,          \* 1-based position of the send loop in jobs
    success,      \* return value of the last send_application call
    attempts,     \* history: send attempts of the current cycle, in order
    startRows,    \* history: the ledger rows when the current cycle started
    capHitIdx,    \* history: loop position at which the daily-limit check fired
    contacted,    \* history: the (lowercased) addresses a send attempt was made to
    failedJobs,   \* history: job ids with a recorded failed attempt since the last reset
    recordedJobs, \* history: job ids appended to the ledger since the last reset
    backups,      \* applied_jobs_backup_<date>.csv, one file per day
    preset,       \* which settings START_TIME, END_TIME, DAYS_TO_RUN hold
    weekday0,     \* the weekday of day 0 (0 = Monday .. 6 = Sunday)
    due,          \* the scheduled jobs whose time has come
    running,      \* number of scheduled jobs being executed
    lastAttempt,  \* history: what the last scheduled cycle attempt did
    job_links,    \* the hrefs of the detail links found on the listing page
    job_urls,     \* the detail URLs submitted to the worker pool
    futures,      \* positions in job_urls whose result is not collected yet
    all_jobs,     \* the jobs collected so far
    seen_job_ids, \* the job ids collected so far
    completions,  \* history: the collected results, in completion order
    drivers,      \* the open browser sessions, by owner: 0 the listing
                  \* fetch, i the worker of job_urls[i]
    opened,       \* history: the owners that acquired a session
    success_count,  \* the tallies scrape_jobs_parallel prints
    filtered_count,
    no_email_count,
    error_count,
    workers,      \* the max_workers the harvest was called with
    done,         \* the results of the workers that returned, not yet taken
                  \* by the collecting loop
    waited,       \* history: the delay has been waited since the last send attempt
    postings,     \* the job records the listing site can yield
    CHROME_SERVICE,  \* the global of scraper_parallel: 0 (None) or a handle
    services,     \* history: number of Service objects created
    callers,      \* the threads calling setup_driver: position and locals
    title,        \* the arguments of is_relevant_job
    keywords,
    exclude_keywords,
    min_years,
    stated_years, \* history: the years the title states (0: none)
    job_years,    \* result of extract_years_experience(title)
    relevant,     \* result of scraper_parallel.is_relevant_job
    relevant_seq, \* result of scraper.is_relevant_job
    matches,      \* the addresses re.findall finds in the text of a detail page
    scanned,      \* history: extract_email was called on the page text
    detail,       \* what scrape_job_detail_parallel returned
    search_driver,  \* the session of scrape_jobs_with_search: "none", "open"
                  \* or "quit"
    page_num,     \* the loop variable of the pagination loop
    shown,        \* the page the session displays
    pages,        \* history: the pages whose jobs were processed
    found,        \* number of jobs in the list scrape_jobs_with_search builds
    lastNext      \* history: what the last look for the 'Next' link gave

vars == <<csv_exists, csv_rows, clock, mode, pc, harvest, jobs, idx, success,
          attempts, startRows, capHitIdx, contacted,
          failedJobs, recordedJobs,
          backups, preset, weekday0, due, running, lastAttempt,
          job_links, job_urls, futures, all_jobs, seen_job_ids, completions,
          drivers, opened, success_count, filtered_count, no_email_count,
          error_count, workers, done, waited, postings, CHROME_SERVICE, services, callers,
          title, keywords, exclude_keywords, min_years, stated_years,
          job_years, relevant, relevant_seq, matches, scanned, detail,
          search_driver, page_num, shown, pages, found, lastNext>>

----------------------------------------------------------------------------
\* Bounds of the model.

\* Daily limit; config.py sets 1000, scaled down so that the limit is reached.
MAX_APPLICATIONS_PER_DAY == 2
\* Longest harvest the scraper returns in one cycle.
MaxHarvest == 3
\* Last day of the explored calendar (days 0..MaxDay).
MaxDay == 1

\* Program constants.
EOD_HOUR == 23
EOD_MINUTE == 0

----------------------------------------------------------------------------
\* Texts.

Digits == {"0", "1", "2", "3", "4", "5", "6", "7", "8", "9"}

DigitVal(c) ==
    CASE c = "0" -> 0 [] c = "1" -> 1 [] c = "2" -> 2 [] c = "3" -> 3
      [] c = "4" -> 4 [] c = "5" -> 5 [] c = "6" -> 6 [] c = "7" -> 7
      [] c = "8" -> 8 [] c = "9" -> 9

DigitChar(n) ==
    CASE n = 0 -> "0" [] n = 1 -> "1" [] n = 2 -> "2" [] n = 3 -> "3"
      [] n = 4 -> "4" [] n = 5 -> "5" [] n = 6 -> "6" [] n = 7 -> "7"
      [] n = 8 -> "8" [] n = 9 -> "9"

\* Variant: letter case is kept.
LowerCharKeepsCase(c) == c

\* str.lower() on one character of the alphabet used for addresses and
\* titles.
LowerChar(c) ==
    CASE c = "A" -> "a" [] c = "B" -> "b" [] c = "I" -> "i" [] c = "J" -> "j"
      [] c = "O" -> "o" [] c = "S" -> "s" [] c = "W" -> "w" [] c = "Y" -> "y"
      [] OTHER -> c

\* str.lower()
Lower(t) == [i \in 1..Len(t) |-> LowerChar(t[i])]

\* Job ids the detail extractor produces, the text after "id=" in the URL:
\* digit strings, and one that goes on after the digits.
JobIds == {<<"1">>, <<"2">>, <<"3", "x">>}

\* Contact addresses found on detail pages (letter case as on the page).
Emails == {<<"A">>, <<"b">>}

LowerEmails == {Lower(e) : e \in Emails}

JobRecords == [job_id : JobIds, email : Emails]

----------------------------------------------------------------------------
\* The tabular store: pandas.read_csv / DataFrame.to_csv.

\* A value of the job_id column of a DataFrame: a Python str or an int64.
PyStr(t) == [t |-> "str", i |-> 0, s |-> t]
PyInt(n) == [t |-> "int", i |-> n, s |-> <<>>]

\* Python ==  between such values: a str never equals an int.
PyEq(a, b) == a.t = b.t /\ a.i = b.i /\ a.s = b.s

IsIntLiteral(t) == t # <<>> /\ \A i \in 1..Len(t) : t[i] \in Digits

RECURSIVE ParseInt(_)
ParseInt(t) ==
    IF t = <<>> THEN 0
    ELSE 10 * ParseInt(SubSeq(t, 1, Len(t) - 1)) + DigitVal(t[Len(t)])

RECURSIVE IntToText(_)
IntToText(n) ==
    IF n < 10 THEN <<DigitChar(n)>>
    ELSE IntToText(n \div 10) \o <<DigitChar(n % 10)>>

\* The cell text to_csv writes for a value.
CellText(v) == IF v.t = "int" THEN IntToText(v.i) ELSE v.s

\* Type inference of read_csv on the job_id column: a column whose cells are
\* all integer literals is read as int64, any other column as str objects.
InferJobIdColumn(rows) ==
    IF \A k \in 1..Len(rows) : IsIntLiteral(rows[k].job_id)
    THEN [k \in 1..Len(rows) |-> PyInt(ParseInt(rows[k].job_id))]
    ELSE [k \in 1..Len(rows) |-> PyStr(rows[k].job_id)]

\* pd.read_csv(CSV_FILE): the rows with the job_id column typed.
read_csv(rows) ==
    LET col == InferJobIdColumn(rows)
    IN  [k \in 1..Len(rows) |->
            [job_id |-> col[k], email |-> rows[k].email,
             applied_date |-> rows[k].applied_date, status |-> rows[k].status]]

\* df.to_csv(CSV_FILE, index=False)
to_csv(df) ==
    [k \in 1..Len(df) |->
        [job_id |-> CellText(df[k].job_id), email |-> df[k].email,
         applied_date |-> df[k].applied_date, status |-> df[k].status]]

\* datetime.now().strftime('%Y-%m-%d %H:%M:%S'): the timestamp as text fields.
strftime(now) == <<now.day, now.hour, now.minute>>

\* pd.to_datetime on one applied_date cell.
to_datetime(cell) == [day |-> cell[1], hour |-> cell[2], minute |-> cell[3]]

----------------------------------------------------------------------------
\* database.py over the ledger file.

HeaderOnly == <<>>

\* A file that does not exist, and a file holding a header and data rows.
NoFile == [exists |-> FALSE, rows |-> <<>>]
FileOf(rows) == [exists |-> TRUE, rows |-> rows]

\* Variant: the file is written anew without looking whether it exists.
initialize_database_recreates == HeaderOnly

\* initialize_database(): creates the file with its header when it is absent.
initialize_database_rows == IF csv_exists THEN csv_rows ELSE HeaderOnly

\* is_already_applied(job_id) on a store holding `rows`.
JobIdInStore(job_id, rows) ==
    LET df == read_csv(rows)
    IN  \E k \in 1..Len(df) : PyEq(PyStr(job_id), df[k].job_id)

\* is_already_applied(job_id)
is_already_applied(job_id) ==
    IF ~csv_exists THEN FALSE ELSE JobIdInStore(job_id, csv_rows)

\* is_email_already_contacted(email) on a store holding `rows`.
EmailInStore(email, rows) ==
    LET df == read_csv(rows)
    IN  Lower(email) \in {Lower(df[k].email) : k \in 1..Len(df)}

\* is_email_already_contacted(email)
is_email_already_contacted(email) ==
    IF ~csv_exists THEN FALSE
    ELSE IF email = <<>> THEN FALSE
    ELSE EmailInStore(email, csv_rows)

\* get_todays_application_count() on a store holding `rows`, at time `now`.
CountToday(rows, now) ==
    LET df == read_csv(rows)
    IN  Cardinality({k \in 1..Len(df) :
                        to_datetime(df[k].applied_date).day = now.day})

\* get_todays_application_count()
get_todays_application_count ==
    IF ~csv_exists THEN 0 ELSE CountToday(csv_rows, clock)

\* record_application(job_id, job_title, company, email, status): read the
\* whole store, append the new row, write the whole store back.
record_application(job_id, email, status) ==
    LET df      == read_csv(csv_rows)
        new_row == [job_id |-> PyStr(job_id), email |-> Lower(email),
                    applied_date |-> strftime(clock), status |-> status]
    IN  to_csv(Append(df, new_row))

----------------------------------------------------------------------------
\* The clock.

\* Times of day the model observes: one inside the working window and
\* before end of day, and the end-of-day hour.
HourSeq == <<12, 23>>

HourPos(h) == CHOOSE i \in 1..Len(HourSeq) : HourSeq[i] = h

\* is_eod(): now.hour >= EOD_HOUR and now.minute >= EOD_MINUTE
is_eod == clock.hour >= EOD_HOUR /\ clock.minute >= EOD_MINUTE

\* Times of day the scheduler is observed at, as <<hour, minute, second>>:
\* the bounds of the windows with the instants just outside them, the end
\* of day, and times in between.
TimeSeq == << <<0, 0, 0>>, <<6, 59, 59>>, <<7, 0, 0>>, <<12, 0, 0>>,
             <<15, 0, 0>>, <<15, 0, 1>>, <<20, 0, 0>>, <<23, 0, 0>>,
             <<23, 59, 0>>, <<23, 59, 1>> >>

TimePos(now) ==
    CHOOSE i \in 1..Len(TimeSeq) : TimeSeq[i] = <<now.hour, now.minute, now.second>>

\* The settings of scheduler_config.py: the module's own values ("config")
\* and the values the use_preset_* functions assign.
Presets == {"config", "business", "extended", "always", "night"}

START_TIME ==
    CASE preset = "config"   -> <<7, 0, 0>>
      [] preset = "business" -> <<7, 0, 0>>
      [] preset = "extended" -> <<8, 0, 0>>
      [] preset = "always"   -> <<0, 0, 0>>
      [] preset = "night"    -> <<18, 0, 0>>

END_TIME ==
    CASE preset = "config"   -> <<15, 0, 0>>
      [] preset = "business" -> <<23, 59, 0>>
      [] preset = "extended" -> <<22, 0, 0>>
      [] preset = "always"   -> <<23, 59, 0>>
      [] preset = "night"    -> <<9, 0, 0>>

\* DAYS_TO_RUN, as weekday numbers (0 = Monday .. 6 = Sunday).
DAYS_TO_RUN == IF preset = "extended" THEN 0..4 ELSE 0..6

\* datetime.now().strftime('%A'), as a weekday number.
Weekday(now) == (weekday0 + now.day) % 7

\* datetime.time < datetime.time
TimeLess(a, b) ==
    \/ a[1] < b[1]
    \/ a[1] = b[1] /\ a[2] < b[2]
    \/ a[1] = b[1] /\ a[2] = b[2] /\ a[3] < b[3]

\* Variant: a window whose end is before its start is taken to cross
\* midnight.
is_within_working_hours_wraps ==
    LET current_time == <<clock.hour, clock.minute, clock.second>>
    IN  IF Weekday(clock) \notin DAYS_TO_RUN THEN FALSE
        ELSE IF TimeLess(END_TIME, START_TIME)
        THEN ~TimeLess(current_time, START_TIME) \/ ~TimeLess(END_TIME, current_time)
        ELSE ~TimeLess(current_time, START_TIME) /\ ~TimeLess(END_TIME, current_time)

\* Variant: the end of the window is excluded.
is_within_working_hours_open_end ==
    LET current_time == <<clock.hour, clock.minute, clock.second>>
    IN  IF Weekday(clock) \notin DAYS_TO_RUN THEN FALSE
        ELSE IF TimeLess(current_time, START_TIME) THEN FALSE
        ELSE IF ~TimeLess(current_time, END_TIME) THEN FALSE
        ELSE TRUE

\* is_within_working_hours()
is_within_working_hours ==
    LET current_time == <<clock.hour, clock.minute, clock.second>>
        current_day  == Weekday(clock)
    IN  IF current_day \notin DAYS_TO_RUN THEN FALSE
        ELSE IF TimeLess(current_time, START_TIME) THEN FALSE
        ELSE IF TimeLess(END_TIME, current_time) THEN FALSE
        ELSE TRUE

\* should_run_now(): SCHEDULING_ENABLED is True.
should_run_now == is_within_working_hours

----------------------------------------------------------------------------
\* The harvest handed to a dispatch loop: scrape_jobs / scrape_jobs_parallel
\* return records with pairwise distinct job ids (seen_job_ids).

Harvests ==
    UNION {{h \in [1..n -> postings] :
               \A i, j \in 1..n : i # j => h[i].job_id # h[j].job_id}
           : n \in 0..MaxHarvest}

\* filtered_jobs of the parallel entry points: the jobs whose job id and
\* address are not in the sets loaded once before the loop.
RECURSIVE FilterJobs(_, _)
FilterJobs(js, rows) ==
    IF js = <<>> THEN <<>>
    ELSE LET df              == read_csv(rows)
             applied_job_ids == {df[k].job_id : k \in 1..Len(df)}
             applied_emails  == {Lower(df[k].email) : k \in 1..Len(df)}
             job             == Head(js)
             rest            == FilterJobs(Tail(js), rows)
         IN  IF \E v \in applied_job_ids : PyEq(PyStr(job.job_id), v) THEN rest
             ELSE IF Lower(job.email) \in applied_emails THEN rest
             ELSE <<job>> \o rest

\* Variant: the limit test lets one more application through.
DailyLimitReachedOffByOne(count) == count > MAX_APPLICATIONS_PER_DAY

\* The daily-limit test used before a cycle and before every send.
DailyLimitReached(count) == count >= MAX_APPLICATIONS_PER_DAY

\* Variant: the limit test skips the candidate (continue) instead of
\* leaving the loop.
OnDailyLimitContinue(i) == [pc |-> "loop", idx |-> i + 1]

\* Where the send loop goes when the daily-limit test fires at position i:
\* break.
OnDailyLimit(i) == [pc |-> "summary", idx |-> i]

\* Variant: a failed send ends the loop.
AfterRecordHaltOnFailure(ok, i) ==
    IF ok THEN [pc |-> "loop", idx |-> i + 1] ELSE [pc |-> "summary", idx |-> i]

\* Where the send loop goes after recording an attempt with result ok at
\* position i: the next iteration, whatever the result.
AfterRecord(ok, i) == [pc |-> "loop", idx |-> i + 1]

\* status recorded by main.py for a send result.
StatusOf(ok) == IF ok THEN "sent" ELSE "failed"

----------------------------------------------------------------------------
\* Number of pool threads: scrape_jobs_parallel(max_workers=3).
max_workers == 3

\* The variables of the harvest while no harvest is followed.
HarvestIdle ==
    /\ job_links = <<>>
    /\ job_urls = <<>>
    /\ futures = {}
    /\ all_jobs = <<>>
    /\ seen_job_ids = {}
    /\ completions = <<>>
    /\ drivers = {}
    /\ opened = {}
    /\ success_count = 0
    /\ filtered_count = 0
    /\ no_email_count = 0
    /\ error_count = 0
    /\ workers = max_workers
    /\ done = {}

\* Largest number of threads that call setup_driver.
MaxThreads == 2

Threads == 1..MaxThreads

\* A thread that has not called setup_driver.
NotCalled == [pc |-> "idle", attempt |-> 0, service |-> 0, inits |-> 0,
              init_errors |-> 0, failed |-> 0, sleeps |-> 0, created |-> 0]

\* The session factory after the import of scraper_parallel:
\* CHROME_SERVICE = None.
FactoryIdle ==
    /\ CHROME_SERVICE = 0
    /\ services = 0
    /\ callers = [t \in Threads |-> NotCalled]

\* The variables of the relevance filter while it is not followed.
FilterIdle ==
    /\ title = <<>>
    /\ keywords = <<>>
    /\ exclude_keywords = <<>>
    /\ min_years = 0
    /\ stated_years = 0
    /\ job_years = 0
    /\ relevant = FALSE
    /\ relevant_seq = FALSE

\* The detail extractor while no page is being extracted.
NoDetail == [kind |-> "none", email |-> <<>>, status_message |-> ""]

DetailIdle ==
    /\ matches = <<>>
    /\ scanned = FALSE
    /\ detail = NoDetail

\* A page: how many detail links it holds and whether it holds a link with
\* the text Next.
Page(kind, urls, next) == [kind |-> kind, urls |-> urls, next |-> next]

\* scrape_jobs_with_search before it is called.
SearchIdle ==
    /\ search_driver = "none"
    /\ page_num = 0
    /\ shown = Page("blank", 0, FALSE)
    /\ pages = 0
    /\ found = 0
    /\ lastNext = "none"

\* State after construction: no ledger file yet, no process running.
Constructed ==
    /\ csv_exists = FALSE
    /\ csv_rows = <<>>
    /\ clock = [day |-> 0, hour |-> HourSeq[1], minute |-> 0, second |-> 0]
    /\ mode = "none"
    /\ pc = "off"
    /\ harvest = <<>>
    /\ jobs = <<>>
    /\ idx = 1
    /\ success = FALSE
    /\ attempts = <<>>
    /\ startRows = <<>>
    /\ capHitIdx = 0
    /\ waited = FALSE
    /\ contacted = {}
    /\ failedJobs = {}
    /\ recordedJobs = {}
    /\ backups = [d \in 0..MaxDay |-> NoFile]
    /\ preset = "business"
    /\ weekday0 = 0
    /\ due = {}
    /\ running = 0
    /\ lastAttempt = "none"
    /\ HarvestIdle
    /\ FactoryIdle
    /\ DetailIdle
    /\ SearchIdle

Init ==
    /\ Constructed
    /\ postings = JobRecords
    /\ FilterIdle

cycleVars == <<harvest, jobs, idx, success, attempts, startRows, capHitIdx,
               waited>>
histVars == <<contacted, failedJobs, recordedJobs>>
fileVars == <<csv_exists, csv_rows>>
schedVars == <<backups, preset, weekday0, due, running, lastAttempt>>
factoryVars == <<CHROME_SERVICE, services, callers>>
filterVars == <<title, keywords, exclude_keywords, min_years, stated_years,
                job_years, relevant, relevant_seq>>
detailVars == <<matches, scanned, detail>>
searchVars == <<search_driver, page_num, shown, pages, found, lastNext>>
toolVars == <<factoryVars, filterVars, detailVars, searchVars, postings>>
harvVars == <<job_links, job_urls, futures, all_jobs, seen_job_ids, completions,
              drivers, opened, success_count, filtered_count, no_email_count,
              error_count, workers, done>>


\* The per-cycle variables as they are outside a cycle.
ClearCycle ==
    /\ harvest' = <<>>
    /\ jobs' = <<>>
    /\ idx' = 1
    /\ success' = FALSE
    /\ attempts' = <<>>
    /\ startRows' = <<>>
    /\ capHitIdx' = 0
    /\ waited' = FALSE

\* Time passes: the clock moves to the next observed time of day. (Time that
\* passes between a send and its record, or while the summary is printed, has
\* the effect of time passing just before the send, or after the cycle.)
Tick ==
    /\ pc \in {"off", "crashed", "idle", "loop", "send"}
    /\ LET p == HourPos(clock.hour)
       IN  IF p < Len(HourSeq)
           THEN clock' = [clock EXCEPT !.hour = HourSeq[p + 1]]
           ELSE /\ clock.day < MaxDay
                /\ clock' = [day |-> clock.day + 1, hour |-> HourSeq[1],
                              minute |-> 0, second |-> 0]
    /\ UNCHANGED <<fileVars, mode, pc, cycleVars, histVars>>
    /\ UNCHANGED <<schedVars, harvVars, toolVars>>

\* One of the entry points is started: main.py, main_parallel.py (run once)
\* or main_parallel_scheduled.py (scheduled).
Launch(m) ==
    /\ pc \in {"off", "crashed"}
    /\ mode' = m
    /\ pc' = "idle"
    /\ UNCHANGED <<fileVars, clock, cycleVars, histVars>>
    /\ UNCHANGED <<schedVars, harvVars, toolVars>>

\* main.py process_applications(), up to the send loop.
ProcessApplications ==
    /\ pc = "idle"
    /\ mode = "seq"
    /\ csv_exists' = TRUE
    /\ csv_rows' = initialize_database_rows
    /\ IF DailyLimitReached(CountToday(initialize_database_rows, clock))
       THEN /\ pc' = "off"
            /\ UNCHANGED cycleVars
       ELSE \E h \in Harvests :
              IF Len(h) = 0
              THEN /\ pc' = "off"
                   /\ UNCHANGED cycleVars
              ELSE /\ pc' = "loop"
                   /\ harvest' = h
                   /\ jobs' = h
                   /\ idx' = 1
                   /\ startRows' = initialize_database_rows
                   /\ UNCHANGED <<success, attempts, capHitIdx, waited>>
    /\ mode' = IF pc' = "off" THEN "none" ELSE mode
    /\ UNCHANGED <<clock, histVars>>
    /\ UNCHANGED <<schedVars, harvVars, toolVars>>

\* main_parallel.py process_applications_parallel(), up to the send loop:
\* the history is loaded once and the harvest filtered against it.
ProcessApplicationsParallel ==
    /\ pc = "idle"
    /\ mode = "par"
    /\ csv_exists' = TRUE
    /\ csv_rows' = initialize_database_rows
    /\ IF DailyLimitReached(CountToday(initialize_database_rows, clock))
       THEN /\ pc' = "off"
            /\ UNCHANGED cycleVars
       ELSE \E h \in Harvests :
              /\ pc' = "loop"
              /\ harvest' = h
              /\ jobs' = FilterJobs(h, initialize_database_rows)
              /\ idx' = 1
              /\ startRows' = initialize_database_rows
              /\ UNCHANGED <<success, attempts, capHitIdx, waited>>
    /\ mode' = IF pc' = "off" THEN "none" ELSE mode
    /\ UNCHANGED <<clock, histVars>>
    /\ UNCHANGED <<schedVars, harvVars, toolVars>>

\* backup_csv_file(): copy the ledger, when it exists, to the backup file
\* named after today's date.
BackupCsvFile ==
    IF csv_exists
    THEN backups' = [backups EXCEPT ![clock.day] = FileOf(csv_rows)]
    ELSE UNCHANGED backups

\* Variant: the ledger is deleted and not created again.
ResetCsvFileDeletesOnly ==
    /\ csv_exists' = FALSE
    /\ csv_rows' = <<>>
    /\ failedJobs' = {}
    /\ recordedJobs' = {}

\* reset_csv_file(): delete the ledger and recreate it with its header; a
\* ledger that does not exist is left alone.
ResetCsvFile ==
    /\ IF csv_exists
       THEN /\ csv_rows' = HeaderOnly
            /\ failedJobs' = {}
            /\ recordedJobs' = {}
       ELSE UNCHANGED <<csv_rows, failedJobs, recordedJobs>>
    /\ UNCHANGED csv_exists

----------------------------------------------------------------------------
\* The scheduler: scheduler_config.schedule_bot driving
\* main_parallel_scheduled.process_applications_parallel.

\* Ledgers earlier runs of main.py leave behind: up to two rows of day 0
\* with different job ids and different addresses.
LedgerRows ==
    [job_id : JobIds, email : LowerEmails, applied_date : {<<0, 12, 0>>},
     status : {"sent", "failed"}]

SchedLedgers ==
    {<<>>} \cup {<<r>> : r \in LedgerRows}
           \cup {rs \in [1..2 -> LedgerRows] : /\ rs[1].job_id # rs[2].job_id
                                                /\ rs[1].email # rs[2].email}

SchedInit ==
    /\ \E f \in {NoFile} \cup {FileOf(rows) : rows \in SchedLedgers} :
          /\ csv_exists = f.exists
          /\ csv_rows = f.rows
    /\ clock = [day |-> 0, hour |-> TimeSeq[1][1], minute |-> TimeSeq[1][2],
                second |-> TimeSeq[1][3]]
    /\ mode = "none"
    /\ pc = "off"
    /\ harvest = <<>>
    /\ jobs = <<>>
    /\ idx = 1
    /\ success = FALSE
    /\ attempts = <<>>
    /\ startRows = <<>>
    /\ capHitIdx = 0
    /\ waited = FALSE
    /\ contacted = {}
    /\ failedJobs = {}
    /\ recordedJobs = {}
    /\ backups = [d \in 0..MaxDay |-> NoFile]
    /\ preset \in Presets
    /\ weekday0 \in {4, 6}
    /\ due = {}
    /\ running = 0
    /\ lastAttempt = "none"
    /\ HarvestIdle
    /\ postings = JobRecords
    /\ FactoryIdle
    /\ FilterIdle
    /\ DetailIdle
    /\ SearchIdle

\* Time passes for the scheduler: the clock moves to the next observed time;
\* at 00:00 the daily job (schedule.every().day.at("00:00")) becomes due.
TickScheduled ==
    /\ pc \in {"off", "crashed", "idle", "running"}
    /\ LET p == TimePos(clock)
       IN  IF p < Len(TimeSeq)
           THEN /\ clock' = [clock EXCEPT !.hour = TimeSeq[p + 1][1],
                                           !.minute = TimeSeq[p + 1][2],
                                           !.second = TimeSeq[p + 1][3]]
                /\ UNCHANGED due
           ELSE /\ clock.day < MaxDay
                /\ clock' = [day |-> clock.day + 1, hour |-> TimeSeq[1][1],
                              minute |-> TimeSeq[1][2], second |-> TimeSeq[1][3]]
                /\ due' = IF mode = "sched" THEN due \cup {"midnight"} ELSE due
    /\ UNCHANGED <<fileVars, mode, pc, cycleVars, histVars,
                   backups, preset, weekday0, running, lastAttempt>>
    /\ UNCHANGED <<harvVars, toolVars>>

\* main_parallel_scheduled.py is started. Its `from config import (...)`
\* names MAX_WORKERS and MAX_PAGES_TO_SCRAPE: with a config.py that lacks
\* them (as the one in the repository does) the import raises ImportError
\* and the process ends; with one that has them, run_scheduled_parallel
\* calls schedule_bot, which registers the two jobs and enters its loop.
LaunchScheduled ==
    /\ pc \in {"off", "crashed"}
    /\ \E config_has_names \in BOOLEAN :
          IF config_has_names
          THEN /\ mode' = "sched"
               /\ pc' = "idle"
          ELSE /\ mode' = "none"
               /\ pc' = "crashed"
    /\ due' = {}
    /\ running' = 0
    /\ lastAttempt' = "none"
    /\ UNCHANGED <<fileVars, clock, cycleVars, histVars, backups, preset, weekday0>>
    /\ UNCHANGED <<harvVars, toolVars>>

\* SCHEDULE_INTERVAL_MINUTES have passed since the cycle job last returned:
\* the job is due. (A job is rescheduled when it returns, so it stays due
\* for as long as it runs.)
IntervalElapsed ==
    /\ mode = "sched"
    /\ pc = "idle"
    /\ "cycle" \notin due
    /\ due' = due \cup {"cycle"}
    /\ UNCHANGED <<fileVars, clock, mode, pc, cycleVars, histVars,
                   backups, preset, weekday0, running, lastAttempt>>
    /\ UNCHANGED <<harvVars, toolVars>>

\* Variant: due jobs are started from a timer, whatever the scheduler's
\* thread is doing.
AtRunPendingOrInJob == pc \in {"idle", "running"}

\* The scheduler's thread is in its loop, at schedule.run_pending(): the one
\* place a job is started from, reached again only when the job returned.
AtRunPending == pc = "idle"

\* scheduled_job(): the cycle starts when should_run_now() holds, and is
\* skipped otherwise.
ScheduledJob ==
    /\ mode = "sched"
    /\ AtRunPending
    /\ "cycle" \in due
    /\ IF should_run_now
       THEN /\ pc' = "running"
            /\ running' = running + 1
            /\ lastAttempt' = "started"
            /\ UNCHANGED due
       ELSE /\ lastAttempt' = "skipped"
            /\ due' = due \ {"cycle"}
            /\ UNCHANGED <<pc, running>>
    /\ UNCHANGED <<fileVars, clock, mode, cycleVars, histVars,
                   backups, preset, weekday0>>
    /\ UNCHANGED <<harvVars, toolVars>>

\* reset_daily_counter(), the job of 00:00: initialize_database().
ResetDailyCounter ==
    /\ mode = "sched"
    /\ AtRunPending
    /\ "midnight" \in due
    /\ csv_exists' = TRUE
    /\ csv_rows' = initialize_database_rows
    /\ due' = due \ {"midnight"}
    /\ UNCHANGED <<clock, mode, pc, cycleVars, histVars,
                   backups, preset, weekday0, running, lastAttempt>>
    /\ UNCHANGED <<harvVars, toolVars>>

\* An exception leaves process_applications_parallel: scheduled_job and
\* schedule_bot catch nothing but KeyboardInterrupt, the process ends with
\* the traceback.
UncaughtException ==
    /\ pc' = "crashed"
    /\ mode' = "none"
    /\ running' = 0
    /\ due' = {}
    /\ lastAttempt' = "error"

\* The cycle returns to scheduled_job, and the job to the scheduler's loop.
CycleReturns(what) ==
    /\ pc' = "idle"
    /\ mode' = mode
    /\ running' = running - 1
    /\ due' = due \ {"cycle"}
    /\ lastAttempt' = what

\* Variant: no return after the reset, the cycle goes on with the normal
\* processing: initialize_database, the limit check, the harvest call.
EodCycleFallsThrough ==
    /\ BackupCsvFile
    /\ csv_exists' = TRUE
    /\ csv_rows' = HeaderOnly
    /\ failedJobs' = {}
    /\ recordedJobs' = {}
    /\ UncaughtException

\* process_applications_parallel() when is_eod(): backup, reset, return.
EodCycle ==
    /\ BackupCsvFile
    /\ ResetCsvFile
    /\ CycleReturns("reset")

\* process_applications_parallel() otherwise: initialize_database(), then
\* get_todays_application_count(), which raises when the ledger cannot be
\* read; return when the daily limit is reached; else the harvest call
\* scrape_jobs_parallel(None, max_workers=..., max_pages=...), which raises
\* TypeError, scrape_jobs_parallel having no parameter max_pages.
NormalCycle(ledger_ok) ==
    /\ csv_exists' = TRUE
    /\ csv_rows' = initialize_database_rows
    /\ UNCHANGED <<backups, failedJobs, recordedJobs>>
    /\ IF ~ledger_ok
       THEN UncaughtException
       ELSE IF DailyLimitReached(CountToday(initialize_database_rows, clock))
       THEN CycleReturns("limit")
       ELSE UncaughtException

\* main_parallel_scheduled.process_applications_parallel(), called by
\* scheduled_job.
ProcessApplicationsScheduled ==
    /\ pc = "running"
    /\ IF is_eod
       THEN EodCycle
       ELSE \E ledger_ok \in BOOLEAN : NormalCycle(ledger_ok)
    /\ UNCHANGED <<clock, cycleVars, contacted, preset, weekday0>>
    /\ UNCHANGED <<harvVars, toolVars>>

\* Ctrl+C: KeyboardInterrupt is raised in the main thread, in the
\* scheduler's wait or inside the job it is running; no handler below
\* schedule_bot's catches it, and schedule_bot's ends the loop.
KeyboardInterrupt ==
    /\ mode = "sched"
    /\ pc \in {"idle", "running"}
    /\ pc' = "off"
    /\ mode' = "none"
    /\ running' = 0
    /\ due' = {}
    /\ lastAttempt' = IF pc = "running" THEN "interrupted" ELSE lastAttempt
    /\ UNCHANGED <<fileVars, clock, cycleVars, histVars, backups, preset, weekday0>>
    /\ UNCHANGED <<harvVars, toolVars>>

SchedNext ==
    \/ TickScheduled
    \/ LaunchScheduled
    \/ IntervalElapsed
    \/ ScheduledJob
    \/ ResetDailyCounter
    \/ ProcessApplicationsScheduled
    \/ KeyboardInterrupt

SchedSpec == SchedInit /\ [][SchedNext]_vars

\* The scheduler's loop goes on: time passes, the interval job becomes due
\* again, schedule.run_pending() runs the due jobs and a started cycle runs
\* to its return, unless the process is ended.
SchedRunSpec ==
    /\ SchedSpec
    /\ WF_vars(TickScheduled)
    /\ WF_vars(IntervalElapsed)
    /\ WF_vars(ScheduledJob)
    /\ WF_vars(ResetDailyCounter)
    /\ WF_vars(ProcessApplicationsScheduled)

----------------------------------------------------------------------------
\* The send loops.

\* main.py, one iteration of `for job in jobs` up to the send: the job-id
\* check, the address check and the daily-limit check, each on the store as
\* it is now.
CheckJob ==
    /\ pc = "loop"
    /\ mode = "seq"
    /\ IF idx > Len(jobs)
       THEN /\ pc' = "summary"
            /\ UNCHANGED <<idx, capHitIdx>>
       ELSE LET job_id == jobs[idx].job_id
                email  == Lower(jobs[idx].email)
            IN  IF is_already_applied(job_id)
                THEN /\ idx' = idx + 1
                     /\ UNCHANGED <<pc, capHitIdx>>
                ELSE IF is_email_already_contacted(email)
                THEN /\ idx' = idx + 1
                     /\ UNCHANGED <<pc, capHitIdx>>
                ELSE IF DailyLimitReached(get_todays_application_count)
                THEN /\ pc' = OnDailyLimit(idx).pc
                     /\ idx' = OnDailyLimit(idx).idx
                     /\ capHitIdx' = idx
                ELSE /\ pc' = "send"
                     /\ UNCHANGED <<idx, capHitIdx>>
    /\ UNCHANGED <<fileVars, clock, mode, harvest, jobs, success,
                   attempts, startRows, waited, histVars>>
    /\ UNCHANGED <<schedVars, harvVars, toolVars>>

\* main_parallel.py, one iteration of `for job in filtered_jobs` up to the
\* send: only the daily-limit check.
CheckJobParallel ==
    /\ pc = "loop"
    /\ mode \in {"par", "sched"}
    /\ IF idx > Len(jobs)
       THEN /\ pc' = "summary"
            /\ UNCHANGED <<idx, capHitIdx>>
       ELSE IF DailyLimitReached(get_todays_application_count)
       THEN /\ pc' = OnDailyLimit(idx).pc
            /\ idx' = OnDailyLimit(idx).idx
            /\ capHitIdx' = idx
       ELSE /\ pc' = "send"
            /\ UNCHANGED <<idx, capHitIdx>>
    /\ UNCHANGED <<fileVars, clock, mode, harvest, jobs, success,
                   attempts, startRows, waited, histVars>>
    /\ UNCHANGED <<schedVars, harvVars, toolVars>>

\* send_application(title, company, email): returns True, or False when
\* sending raised.
SendApplication ==
    /\ pc = "send"
    /\ \E ok \in BOOLEAN :
         /\ success' = ok
         /\ attempts' = Append(attempts,
                [pos |-> idx, job_id |-> jobs[idx].job_id,
                 email |-> Lower(jobs[idx].email), ok |-> ok])
    /\ contacted' = contacted \cup {Lower(jobs[idx].email)}
    /\ pc' = "record"
    /\ waited' = FALSE
    /\ UNCHANGED <<fileVars, clock, mode, harvest, jobs, idx,
                   startRows, capHitIdx, failedJobs, recordedJobs>>
    /\ UNCHANGED <<schedVars, harvVars, toolVars>>

\* The status the entry point passes to record_application: main.py passes
\* 'sent' or 'failed'; the parallel entry points pass none, and the
\* parameter defaults to 'sent'.
RecordedStatus(m, ok) == IF m = "seq" THEN StatusOf(ok) ELSE "sent"

\* total_applied of the cycle: the sends that returned True.
RECURSIVE total_applied(_)
total_applied(atts) ==
    IF atts = <<>> THEN 0
    ELSE (IF Head(atts).ok THEN 1 ELSE 0) + total_applied(Tail(atts))

\* Whether the iteration ends with time.sleep(DELAY_BETWEEN_EMAILS): main.py
\* sleeps only while total_applied is below the daily limit, the parallel
\* entry points always.
SleepsAfterAttempt(m, atts) ==
    IF m = "seq" THEN total_applied(atts) < MAX_APPLICATIONS_PER_DAY ELSE TRUE

\* record_application(...) after the send, the counters and the delay, then
\* the next iteration.
RecordApplication ==
    /\ pc = "record"
    /\ csv_rows' = record_application(jobs[idx].job_id, jobs[idx].email,
                                      RecordedStatus(mode, success))
    /\ recordedJobs' = recordedJobs \cup {jobs[idx].job_id}
    /\ failedJobs' = IF success THEN failedJobs
                     ELSE failedJobs \cup {jobs[idx].job_id}
    /\ pc' = AfterRecord(success, idx).pc
    /\ idx' = AfterRecord(success, idx).idx
    /\ waited' = SleepsAfterAttempt(mode, attempts)
    /\ UNCHANGED <<csv_exists, clock, mode, harvest, jobs,
                   success, attempts, startRows, capHitIdx, contacted>>
    /\ UNCHANGED <<schedVars, harvVars, toolVars>>

\* The summary is printed and the cycle returns; run_once then ends the
\* process.
Summary ==
    /\ pc = "summary"
    /\ pc' = IF mode = "sched" THEN "idle" ELSE "off"
    /\ mode' = IF mode = "sched" THEN mode ELSE "none"
    /\ ClearCycle
    /\ UNCHANGED <<fileVars, clock, histVars>>
    /\ UNCHANGED <<schedVars, harvVars, toolVars>>

Next ==
    \/ Tick
    \/ \E m \in {"seq", "par"} : Launch(m)
    \/ ProcessApplications
    \/ ProcessApplicationsParallel
    \/ CheckJob
    \/ CheckJobParallel
    \/ SendApplication
    \/ RecordApplication
    \/ Summary

Spec == Init /\ [][Next]_vars

----------------------------------------------------------------------------
\* Properties of the dispatch loops and the ledger.

InCycle == pc \in {"loop", "send", "record", "summary"}

\* The ledger file holds a row whose job_id cell is the text j.
LedgerHasJobId(j, rows) == \E k \in 1..Len(rows) : rows[k].job_id = j

\* The ledger file holds a row whose email cell equals e ignoring case.
LedgerHasEmail(e, rows) == \E k \in 1..Len(rows) : Lower(rows[k].email) = Lower(e)

\* Number of ledger rows dated day d.
RowsOfDay(d) == Cardinality({k \in 1..Len(csv_rows) : csv_rows[k].applied_date[1] = d})

\* C1: in main.py's loop a candidate whose job_id, or whose address ignoring
\* case, is already in the ledger is skipped; a send attempt is made only
\* when the ledger holds neither.
C1_SendOnlyWhenNeitherInLedger ==
    (mode = "seq" /\ pc = "send") =>
        /\ ~LedgerHasJobId(jobs[idx].job_id, csv_rows)
        /\ ~LedgerHasEmail(jobs[idx].email, csv_rows)

\* C2: in every dispatch loop, no two send attempts of one cycle go to the
\* same address.
C2_OneAttemptPerAddressInCycle ==
    \A i, j \in 1..Len(attempts) :
        i # j => attempts[i].email # attempts[j].email

\* C3: over any sequence of cycles and resets, no send attempt is made to an
\* address that already received one.
C3_NeverRecontact ==
    pc = "send" => Lower(jobs[idx].email) \notin contacted

\* C4: the ledger never holds more than the daily limit of rows dated one
\* day, and a send attempt is made only while today's count is below the
\* limit.
C4_DailyCapNeverExceeded ==
    /\ \A d \in 0..MaxDay : RowsOfDay(d) <= MAX_APPLICATIONS_PER_DAY
    /\ pc \in {"send", "record"} =>
           get_todays_application_count < MAX_APPLICATIONS_PER_DAY

\* C4 witness: the rows dated today have reached the limit during a cycle,
\* the next candidate was met by the limit check and the loop ended without
\* sending to it.
C4_Witness ==
    /\ pc = "summary"
    /\ capHitIdx > 0
    /\ attempts # <<>>
    /\ attempts[Len(attempts)].pos < capHitIdx
    /\ RowsOfDay(clock.day) = MAX_APPLICATIONS_PER_DAY
    /\ get_todays_application_count = MAX_APPLICATIONS_PER_DAY

\* C5: once the daily-limit check has fired for a candidate, the loop is
\* over: the position stays on that candidate, no later candidate is sent
\* to, and the ledger holds only the rows of the attempts made before.
C5_LimitStopsTheLoop ==
    capHitIdx > 0 =>
        /\ pc = "summary"
        /\ idx = capHitIdx
        /\ \A i \in 1..Len(attempts) : attempts[i].pos < capHitIdx
        /\ Len(csv_rows) = Len(startRows) + Len(attempts)

\* C5 witness: the limit fired with candidates still left in the list, after
\* an attempt of the same cycle.
C5_Witness ==
    /\ pc = "summary"
    /\ capHitIdx > 0
    /\ capHitIdx < Len(jobs)
    /\ attempts # <<>>

\* C6: in every dispatch loop each send attempt has its own appended row,
\* with status sent when the send returned true and failed when it returned
\* false.
C6_RowPerAttemptWithOutcome ==
    InCycle =>
        LET n == IF pc = "record" THEN Len(attempts) - 1 ELSE Len(attempts)
        IN  /\ Len(csv_rows) = Len(startRows) + n
            /\ \A i \in 1..n :
                 LET row == csv_rows[Len(startRows) + i]
                 IN  /\ row.job_id = attempts[i].job_id
                     /\ row.email = attempts[i].email
                     /\ row.status = StatusOf(attempts[i].ok)

\* C7: after a failed attempt for a job id is recorded, no send attempt is
\* made for that job id until a reset.
C7_FailedJobNeverRetried ==
    pc = "send" => jobs[idx].job_id \notin failedJobs

\* C8: after send_application returned false the loop appends the row of
\* that candidate (status failed in main.py) and moves on to the next
\* position of the list.
C8_FailureDoesNotHalt ==
    [][(pc = "record" /\ ~success) =>
          /\ pc' = "loop"
          /\ idx' = idx + 1
          /\ Len(csv_rows') = Len(csv_rows) + 1
          /\ csv_rows'[Len(csv_rows')].job_id = jobs[idx].job_id
          /\ (mode = "seq" => csv_rows'[Len(csv_rows')].status = "failed")]_vars

\* C8 witness: in one cycle a send attempt was made after a failed one.
C8_Witness ==
    \E i, j \in 1..Len(attempts) : i < j /\ ~attempts[i].ok

\* The records of h whose job id and address are not in the ledger rows.
RECURSIVE FreshOf(_, _)
FreshOf(h, rows) ==
    IF h = <<>> THEN <<>>
    ELSE IF LedgerHasJobId(Head(h).job_id, rows) \/ LedgerHasEmail(Head(h).email, rows)
         THEN FreshOf(Tail(h), rows)
         ELSE <<[job_id |-> Head(h).job_id, email |-> Lower(Head(h).email)]>>
              \o FreshOf(Tail(h), rows)

\* C9: for a harvest with pairwise distinct addresses and a cycle that did
\* not reach the daily limit, the send attempts are exactly the records
\* whose job id and address were not in the ledger, in harvest order, one
\* appended row each.
C9_AttemptsAreExactlyTheFresh ==
    ( /\ pc = "summary"
      /\ capHitIdx = 0
      /\ \A i, j \in 1..Len(harvest) :
            i # j => Lower(harvest[i].email) # Lower(harvest[j].email) ) =>
        /\ [i \in 1..Len(attempts) |->
               [job_id |-> attempts[i].job_id, email |-> attempts[i].email]]
             = FreshOf(harvest, startRows)
        /\ Len(csv_rows) = Len(startRows) + Len(attempts)

\* C10: every job id appended since the last reset is reported by
\* is_already_applied.
C10_AppendedJobIsApplied ==
    \A j \in recordedJobs : is_already_applied(j)

\* The letters of the address alphabet, in both cases.
UpperLetters == {"A", "B"}
CaseVariants == {<<"a">>, <<"A">>, <<"b">>, <<"B">>}

\* Texts a and b are equal ignoring letter case.
SameIgnoringCase(a, b) ==
    /\ Len(a) = Len(b)
    /\ \A i \in 1..Len(a) :
          \/ a[i] = b[i]
          \/ {a[i], b[i]} = {"a", "A"}
          \/ {a[i], b[i]} = {"b", "B"}

\* Number of attempts of the current cycle whose row has been appended.
Recorded == IF pc = "record" THEN Len(attempts) - 1 ELSE Len(attempts)

\* C11: every ledger row stores its address without upper-case letters, and
\* after the row of a candidate with address E is appended,
\* is_email_already_contacted is true for every text equal to E ignoring
\* case.
C11_EmailMembershipIgnoresCase ==
    /\ \A k \in 1..Len(csv_rows) :
          \A i \in 1..Len(csv_rows[k].email) :
              csv_rows[k].email[i] \notin UpperLetters
    /\ InCycle =>
          \A i \in 1..Recorded :
              \A e \in CaseVariants :
                  SameIgnoringCase(e, jobs[attempts[i].pos].email) =>
                      is_email_already_contacted(e)

\* C11 witness: a row was appended for a candidate whose address is written
\* in upper case, and the lower-case spelling is found in the ledger.
C11_Witness ==
    /\ pc = "loop"
    /\ \E i \in 1..Len(attempts) : jobs[attempts[i].pos].email = <<"A">>
    /\ csv_rows[Len(csv_rows)].email = <<"a">>
    /\ is_email_already_contacted(<<"a">>)
    /\ is_email_already_contacted(<<"A">>)

\* C12: initialize_database, called at the start of every cycle of main.py
\* and main_parallel.py, leaves the ledger file existing; the data rows of
\* an existing file are unchanged, and a file that was absent has none.
C12_InitializeKeepsRows ==
    [][(pc = "idle" /\ mode \in {"seq", "par"} /\ clock' = clock) =>
          /\ csv_exists'
          /\ csv_rows' = IF csv_exists THEN csv_rows ELSE <<>>]_vars

\* C12 witness: a cycle has started, after initialize_database, on a ledger
\* that already held rows, and those rows are still there.
C12_Witness ==
    /\ pc = "loop"
    /\ idx = 1
    /\ attempts = <<>>
    /\ Len(startRows) >= 2
    /\ csv_rows = startRows

----------------------------------------------------------------------------
\* Properties of the scheduler and the end-of-day reset (SchedSpec).

\* The step in which a running cycle returns after the end-of-day reset.
ResetCycleStep == pc = "running" /\ lastAttempt' = "reset"

\* After the step the ledger counts no application for today and knows no
\* job id and no address.
LedgerBlankAfter ==
    /\ get_todays_application_count' = 0
    /\ \A j \in JobIds : ~is_already_applied(j)'
    /\ \A e \in CaseVariants : ~is_email_already_contacted(e)'

\* C13 as stated: after a reset cycle the ledger exists with only its
\* header, today's count is 0, no job id and no address is found, and
\* today's backup holds the rows the ledger held before.
C13_ResetLeavesHeaderAndBackup ==
    [][ResetCycleStep =>
          /\ csv_exists'
          /\ csv_rows' = <<>>
          /\ LedgerBlankAfter
          /\ backups'[clock.day] = FileOf(csv_rows)]_vars

\* C13 amended: that holds when the ledger file exists before the reset; a
\* ledger file that does not exist is left absent and no backup is written;
\* in both cases today's count is 0 and no job id and no address is found.
C13_ResetOfExistingLedger ==
    [][ResetCycleStep =>
          /\ IF csv_exists
             THEN /\ csv_exists'
                  /\ csv_rows' = <<>>
                  /\ backups'[clock.day] = FileOf(csv_rows)
             ELSE UNCHANGED <<csv_exists, csv_rows, backups>>
          /\ LedgerBlankAfter
          /\ \A d \in 0..MaxDay : d # clock.day => backups'[d] = backups[d]]_vars

\* C13 witness: a reset cycle has emptied a ledger that held rows, and
\* today's backup holds them.
C13_Witness ==
    /\ lastAttempt = "reset"
    /\ csv_exists
    /\ csv_rows = <<>>
    /\ backups[clock.day].exists
    /\ Len(backups[clock.day].rows) = 2

\* C14: a cycle that finds is_eod() true only backs up and resets: it
\* returns to the scheduler with no harvest, no send attempt and no row
\* in the ledger.
C14_ResetCycleDoesNothingElse ==
    [][(pc = "running" /\ is_eod /\ clock' = clock /\ pc' # "off") =>
          /\ pc' = "idle"
          /\ lastAttempt' = "reset"
          /\ csv_rows' = <<>>
          /\ UNCHANGED <<harvest, jobs, attempts, contacted>>]_vars

\* C14 witness: at end of day a cycle has returned after the reset.
C14_Witness ==
    /\ is_eod
    /\ pc = "idle"
    /\ lastAttempt = "reset"
    /\ harvest = <<>>
    /\ attempts = <<>>

\* Seconds since midnight of a time of day.
SecondOfDay(t) == 3600 * t[1] + 60 * t[2] + t[3]

\* The current weekday is one of the days to run and the current time of
\* day is between the start and the end of the window, both included.
InWindow ==
    LET now == SecondOfDay(<<clock.hour, clock.minute, clock.second>>)
    IN  /\ Weekday(clock) \in DAYS_TO_RUN
        /\ SecondOfDay(START_TIME) <= now
        /\ now <= SecondOfDay(END_TIME)

\* C15: the scheduler's cycle job is run only when it is due; it starts a
\* cycle exactly when the clock is in the window, and otherwise is skipped
\* with the ledger untouched; a cycle that completes is back in the
\* scheduler's wait.
C15_CycleStartsOnlyInWindow ==
    [][ /\ (/\ mode = "sched" /\ pc = "idle" /\ clock' = clock
            /\ \/ pc' = "running"
               \/ pc' = "idle" /\ "cycle" \in due /\ "cycle" \notin due') =>
             /\ "cycle" \in due
             /\ pc' = "running" <=> InWindow
             /\ pc' = "idle" =>
                   /\ lastAttempt' = "skipped"
                   /\ UNCHANGED <<fileVars, backups, cycleVars, contacted>>
        /\ (pc = "running" /\ lastAttempt' \in {"reset", "limit"}) =>
             /\ pc' = "idle"
             /\ running' = 0 ]_vars

\* C15 witness: a cycle is running with the clock on the last instant of
\* the window.
C15_Witness ==
    /\ pc = "running"
    /\ lastAttempt = "started"
    /\ <<clock.hour, clock.minute, clock.second>> = END_TIME

C17_AtMostOneCycleRunning ==
    /\ running <= 1
    /\ running = 1 <=> pc = "running"

\* C17 witness: a cycle is running while both scheduled jobs are due, and
\* neither has been started.
C17_Witness ==
    /\ pc = "running"
    /\ running = 1
    /\ due = {"cycle", "midnight"}

\* C18: a stop signal never ends a cycle that is running.
C18_StopNeverInterruptsCycle ==
    [][pc = "running" => pc' # "off" /\ lastAttempt' # "interrupted"]_vars

\* C19: a failure inside a cycle never ends the scheduler's process.
C19_SchedulerSurvivesFailure ==
    [][(pc = "running" /\ lastAttempt' = "error") =>
          pc' = "idle" /\ mode' = "sched"]_vars

\* C36: a step never changes the rows of a dated backup that holds rows.
C36_BackupKeepsTheDaysRows ==
    [][\A d \in 0..MaxDay :
          (backups[d].exists /\ backups[d].rows # <<>>) =>
             backups'[d] = backups[d]]_vars

\* C37: a running cycle that is before the end of day and below the daily
\* limit does not end with an exception: its next step is not the end of
\* the process.
C37_CycleReachesTheHarvest ==
    [][(/\ pc = "running"
        /\ ~is_eod
        /\ ~DailyLimitReached(CountToday(initialize_database_rows, clock)))
          => (pc' # "crashed" /\ lastAttempt' # "error")]_vars

\* C35: while the scheduler keeps running, a time at or after the end of
\* day is followed by a reset cycle of that evening, whatever the schedule
\* window is.
C35_EndOfDayFollowedByReset ==
    (mode = "sched" /\ is_eod) ~>
       ((lastAttempt = "reset" /\ is_eod) \/ mode # "sched")

----------------------------------------------------------------------------
\* The harvest: scraper_parallel.scrape_jobs_parallel.
\* A URL is a text of tokens: "H" stands for https://jobs.nvoids.com, "J"
\* for job_details.jsp?id= , the other tokens are single characters.

\* Largest number of detail links on the listing page.
MaxLinks == 3

\* What follows id= in the links of the listing page: a job id, the same
\* job id with a further parameter, and another job id.
LinkQueries == {<<"1">>, <<"1", "&", "p">>, <<"3", "x">>}

\* The hrefs the listing page can hold for a detail page: relative,
\* rooted, or absolute.
Hrefs ==
    {pre \o <<"J">> \o q : pre \in {<<>>, <<"/">>, <<"H", "/">>}, q \in LinkQueries}

Listings == UNION {[1..n -> Hrefs] : n \in 0..MaxLinks}

\* str.startswith
StartsWith(t, pre) == Len(t) >= Len(pre) /\ SubSeq(t, 1, Len(pre)) = pre

\* full_url of a link's href.
full_url(href) ==
    IF StartsWith(href, <<"J">>) THEN <<"H", "/">> \o href
    ELSE IF StartsWith(href, <<"/">>) THEN <<"H">> \o href
    ELSE href

\* job_urls: the full URLs of the links, each once, in first-seen order.
RECURSIVE ExtractJobUrls(_, _)
ExtractJobUrls(links, acc) ==
    IF links = <<>> THEN acc
    ELSE LET u == full_url(Head(links))
         IN  IF \E k \in 1..Len(acc) : acc[k] = u
             THEN ExtractJobUrls(Tail(links), acc)
             ELSE ExtractJobUrls(Tail(links), Append(acc, u))

\* detail_url.split('id=')[1].split('&')[0]
JobIdOfUrl(detail_url) ==
    LET j     == CHOOSE k \in 1..Len(detail_url) :
                    /\ detail_url[k] = "J"
                    /\ \A m \in 1..(k - 1) : detail_url[m] # "J"
        after == SubSeq(detail_url, j + 1, Len(detail_url))
        amps  == {k \in 1..Len(after) : after[k] = "&"}
        stop  == IF amps = {} THEN Len(after) + 1
                 ELSE CHOOSE k \in amps : \A m \in amps : k <= m
    IN  SubSeq(after, 1, stop - 1)

\* What happens in scrape_job_detail_parallel once its session is open:
\* the page gives a job, the title is filtered out, no address is found, or
\* driver.get / the parsing raises.
Outcomes ==
    {[kind |-> "success", email |-> <<"A">>],
     [kind |-> "filtered", email |-> <<>>],
     [kind |-> "no_email", email |-> <<>>],
     [kind |-> "error", email |-> <<>>]}

\* The status_message scrape_job_detail_parallel returns with its result;
\* an exception is caught in the worker and returned as a message, with no
\* job.
status_message(kind) ==
    CASE kind = "success" -> "SUCCESS"
      [] kind = "filtered" -> "FILTERED: reason"
      [] kind = "no_email" -> "NO EMAIL FOUND"
      [] kind = "error" -> "ERROR: reason"

\* "NO EMAIL" in status_message
HasNoEmailText(msg) == msg = "NO EMAIL FOUND"

\* Variant: every job is kept.
NotSeenUnchecked(job_id, seen) == TRUE

\* job['job_id'] not in seen_job_ids
NotSeen(job_id, seen) == job_id \notin seen

\* Variant: a worker's exception ends the collecting loop.
AfterResultErrorAborts(kind) ==
    IF kind = "error" THEN "returned" ELSE "collecting"

\* Where the collecting loop is after a result: at the next future.
AfterResult(kind) == "collecting"

\* Variant: the session is quit only when no exception was raised.
QuitUnlessError(ds, i, kind) == IF kind = "error" THEN ds ELSE ds \ {i}

\* finally: driver.quit() in scrape_job_detail_parallel.
Quit(ds, i, kind) == ds \ {i}

\* Variant: the job id of every result is marked as seen.
SeenAfterNoJobMarked(job_id, seen) == seen \cup {job_id}

\* seen_job_ids after a result without a job: the else branch of `if job`
\* does not touch it.
SeenAfterNoJob(job_id, seen) == seen

\* One pass of the body of `for ... in as_completed(future_to_url)` for the
\* result (job, status_message) of a worker.
Collect(kind, job) ==
    /\ completions' = Append(completions, [kind |-> kind, job |-> job])
    /\ IF kind = "success"
       THEN /\ IF NotSeen(job.job_id, seen_job_ids)
               THEN /\ all_jobs' = Append(all_jobs, job)
                    /\ seen_job_ids' = seen_job_ids \cup {job.job_id}
                    /\ success_count' = success_count + 1
               ELSE UNCHANGED <<all_jobs, seen_job_ids, success_count>>
            /\ UNCHANGED <<no_email_count, filtered_count>>
       ELSE /\ IF HasNoEmailText(status_message(kind))
               THEN /\ no_email_count' = no_email_count + 1
                    /\ UNCHANGED filtered_count
               ELSE /\ filtered_count' = filtered_count + 1
                    /\ UNCHANGED no_email_count
            /\ seen_job_ids' = SeenAfterNoJob(job.job_id, seen_job_ids)
            /\ UNCHANGED <<all_jobs, success_count>>
    /\ UNCHANGED error_count

\* The max_workers scrape_jobs_parallel is called with: 1 by the module's
\* own test run, 3 by default and by main_parallel.py.
WorkerCounts == {1, max_workers}

\* The futures no pool thread has taken yet, and the next one taken.
Queued == futures \ (drivers \cup {r.i : r \in done})
NextQueued == CHOOSE i \in Queued : \A j \in Queued : i <= j

\* scrape_jobs_parallel up to the pool: the session of the listing fetch is
\* set up, the listing page loaded and its links extracted; each URL is
\* submitted to the pool. When setup_driver or the page load raises, or the
\* page has no links, the function returns the empty list, and its finally
\* quits the session if there is one.
ScrapeListing ==
    /\ pc = "off"
    /\ job_links = <<>>
    /\ opened = {}
    /\ \E what \in {"setup_raises", "get_raises", "loaded"}, links \in Listings,
          w \in WorkerCounts :
          /\ what # "loaded" => (links = <<>> /\ w = max_workers)
          /\ workers' = w
          /\ opened' = IF what = "setup_raises" THEN {} ELSE {0}
          /\ IF what = "loaded" /\ links # <<>>
             THEN /\ job_links' = links
                  /\ job_urls' = ExtractJobUrls(links, <<>>)
                  /\ futures' = 1..Len(ExtractJobUrls(links, <<>>))
                  /\ drivers' = {0}
                  /\ pc' = "collecting"
             ELSE /\ drivers' = {}
                  /\ pc' = "returned"
                  /\ UNCHANGED <<job_links, job_urls, futures>>
    /\ UNCHANGED <<all_jobs, seen_job_ids, completions, success_count,
                   filtered_count, no_email_count, error_count, done>>
    /\ UNCHANGED <<fileVars, clock, mode, cycleVars, histVars, schedVars, toolVars>>

\* Variant: a thread for every submitted URL.
PoolHasIdleThreadUnbounded == TRUE

\* ThreadPoolExecutor(max_workers=max_workers): a thread of the pool is
\* free to take a URL.
PoolHasIdleThread == Cardinality(drivers \ {0}) < workers

\* A pool thread takes the next submitted URL and setup_driver gives it a
\* session of its own.
WorkerStarts ==
    /\ pc = "collecting"
    /\ Queued # {}
    /\ PoolHasIdleThread
    /\ drivers' = drivers \cup {NextQueued}
    /\ opened' = opened \cup {NextQueued}
    /\ UNCHANGED <<job_links, job_urls, futures, all_jobs, seen_job_ids,
                   completions, success_count, filtered_count,
                   no_email_count, error_count, workers, done, pc>>
    /\ UNCHANGED <<fileVars, clock, mode, cycleVars, histVars, schedVars, toolVars>>

\* A pool thread takes the next submitted URL and setup_driver raises after
\* its retries: the worker has no session and returns the error as its
\* result.
WorkerSetupFails ==
    /\ pc = "collecting"
    /\ Queued # {}
    /\ PoolHasIdleThread
    /\ done' = done \cup {[i |-> NextQueued, kind |-> "error", email |-> <<>>]}
    /\ UNCHANGED <<job_links, job_urls, futures, all_jobs, seen_job_ids,
                   completions, drivers, opened, success_count,
                   filtered_count, no_email_count, error_count, workers, pc>>
    /\ UNCHANGED <<fileVars, clock, mode, cycleVars, histVars, schedVars, toolVars>>

\* The worker of job_urls[i] completes, before the others still running:
\* scrape_job_detail_parallel returns its result and its finally quits its
\* session; the future is done.
FutureCompletes(i) ==
    /\ pc = "collecting"
    /\ i \in futures
    /\ i \in drivers
    /\ \E outcome \in Outcomes :
          /\ drivers' = Quit(drivers, i, outcome.kind)
          /\ done' = done \cup {[i |-> i, kind |-> outcome.kind,
                                 email |-> outcome.email]}
    /\ UNCHANGED <<job_links, job_urls, futures, all_jobs, seen_job_ids,
                   completions, opened, success_count, filtered_count,
                   no_email_count, error_count, workers, pc>>
    /\ UNCHANGED <<fileVars, clock, mode, cycleVars, histVars, schedVars, toolVars>>

\* as_completed hands a done future to the collecting loop, in the main
\* thread: one pass of the loop body on its result.
CollectResult ==
    /\ pc = "collecting"
    /\ \E r \in done :
          /\ done' = done \ {r}
          /\ futures' = futures \ {r.i}
          /\ Collect(r.kind, [job_id |-> JobIdOfUrl(job_urls[r.i]),
                              email |-> r.email, url |-> job_urls[r.i]])
          /\ pc' = AfterResult(r.kind)
    /\ UNCHANGED <<job_links, job_urls, drivers, opened, workers>>
    /\ UNCHANGED <<fileVars, clock, mode, cycleVars, histVars, schedVars, toolVars>>

\* The loop has ended: the statistics are printed, scrape_jobs_parallel
\* returns all_jobs and its finally quits the session of the listing fetch.
ReturnJobs ==
    /\ pc = "collecting"
    /\ futures = {}
    /\ pc' = "returned"
    /\ harvest' = [k \in 1..Len(all_jobs) |->
                      [job_id |-> all_jobs[k].job_id, email |-> all_jobs[k].email]]
    /\ drivers' = drivers \ {0}
    /\ UNCHANGED <<job_links, job_urls, futures, all_jobs, seen_job_ids,
                   completions, opened, success_count, filtered_count,
                   no_email_count, error_count, workers, done>>
    /\ UNCHANGED <<fileVars, clock, mode, jobs, idx, success, attempts,
                   startRows, capHitIdx, waited, histVars, schedVars, toolVars>>

HarvestNext ==
    \/ ScrapeListing
    \/ WorkerStarts
    \/ WorkerSetupFails
    \/ \E i \in 1..MaxLinks : FutureCompletes(i)
    \/ CollectResult
    \/ ReturnJobs

HarvestSpec == Init /\ [][HarvestNext]_vars

\* The successful results of cs whose job id no earlier successful result
\* of cs had, in order.
RECURSIVE FirstCompleted(_, _)
FirstCompleted(cs, ids) ==
    IF cs = <<>> THEN <<>>
    ELSE IF Head(cs).kind = "success" /\ Head(cs).job.job_id \notin ids
         THEN <<Head(cs).job>>
              \o FirstCompleted(Tail(cs), ids \cup {Head(cs).job.job_id})
         ELSE FirstCompleted(Tail(cs), ids)

\* C20: whatever the order in which the workers complete, the collected
\* jobs have pairwise different job ids, each URL of the listing is
\* submitted once, and of the results with one job id the first completed
\* is the one kept.
C20_HarvestHasDistinctJobIds ==
    /\ \A i, j \in 1..Len(all_jobs) :
          i # j => all_jobs[i].job_id # all_jobs[j].job_id
    /\ \A i, j \in 1..Len(job_urls) : i # j => job_urls[i] # job_urls[j]
    /\ all_jobs = FirstCompleted(completions, {})
    /\ pc = "returned" =>
          /\ Len(completions) = Len(job_urls)
          /\ \A i, j \in 1..Len(harvest) :
                i # j => harvest[i].job_id # harvest[j].job_id

\* C20 witness: the listing held one link twice and two URLs with the same
\* job id; both URLs gave a job, the one submitted later completed first
\* and is the job returned.
C20_Witness ==
    /\ pc = "returned"
    /\ Len(job_links) = 3
    /\ job_links[1] = job_links[2]
    /\ Len(job_urls) = 2
    /\ Len(completions) = 2
    /\ completions[1].kind = "success"
    /\ completions[2].kind = "success"
    /\ completions[1].job.url = job_urls[2]
    /\ completions[1].job.job_id = completions[2].job.job_id
    /\ Len(harvest) = 1
    /\ all_jobs = <<completions[1].job>>

\* C21: an exception in the extraction of one URL, session creation failing
\* after its retries included, ends only that URL: the collecting loop goes
\* on, the harvest returns when every URL has been collected, and it holds
\* a record for every URL whose extraction succeeded (one per job id).
C21_ErrorAbandonsOnlyItsUrl ==
    /\ job_urls # <<>> => pc \in {"collecting", "returned"}
    /\ pc = "returned" =>
          /\ Len(completions) = Len(job_urls)
          /\ \A k \in 1..Len(completions) :
                completions[k].kind = "success" =>
                   \E j \in 1..Len(harvest) :
                      harvest[j].job_id = completions[k].job.job_id
          /\ \A j \in 1..Len(harvest) :
                \E k \in 1..Len(completions) :
                   /\ completions[k].kind = "success"
                   /\ completions[k].job.job_id = harvest[j].job_id
                   /\ completions[k].job.email = harvest[j].email

\* C21 witness: of three URLs the first collected had no session (its
\* setup_driver raised), the second raised with its session open, and the
\* third, collected after both, gave the job the harvest returns.
C21_Witness ==
    /\ pc = "returned"
    /\ Len(completions) = 3
    /\ completions[1].kind = "error"
    /\ completions[2].kind = "error"
    /\ completions[3].kind = "success"
    /\ \E i \in 1..3 : job_urls[i] = completions[1].job.url /\ i \notin opened
    /\ \E i \in 1..3 : job_urls[i] = completions[2].job.url /\ i \in opened
    /\ Len(harvest) = 1
    /\ harvest[1].job_id = completions[3].job.job_id

\* C24: a session is open only while its owner is at work: a worker's
\* session is closed once its future is completed, whatever the outcome,
\* and when scrape_jobs_parallel has returned no session is open.
C24_SessionsReleased ==
    /\ drivers \subseteq opened
    /\ \A i \in drivers \ {0} : i \in futures
    /\ pc = "returned" => drivers = {}

\* C24 witness: the listing fetch and three workers each had a session; one
\* worker raised, one found no address, one gave a job; the harvest has
\* returned and no session is open.
C24_Witness ==
    /\ pc = "returned"
    /\ opened = {0, 1, 2, 3}
    /\ drivers = {}
    /\ {completions[k].kind : k \in 1..Len(completions)}
          = {"error", "no_email", "success"}

\* C38: at most workers + 1 sessions are open at any time, one for each
\* busy pool thread and the one of the listing fetch; and a step in which a
\* worker acts (a session is opened or quit, a worker's result becomes
\* available) leaves the result list and the set of seen job ids as they
\* are: they change only in a pass of the collecting loop, which takes one
\* result.
C38_SessionsBoundedSingleCollector ==
    /\ [](Cardinality(drivers) <= workers + 1)
    /\ [][(drivers' # drivers \/ ~(done' \subseteq done)) =>
             (all_jobs' = all_jobs /\ seen_job_ids' = seen_job_ids)]_vars
    /\ [][(all_jobs' # all_jobs \/ seen_job_ids' # seen_job_ids) =>
             /\ Len(completions') = Len(completions) + 1
             /\ Cardinality(done') = Cardinality(done) - 1]_vars

\* C38 witness: a harvest with one pool thread: the thread is busy with its
\* session open beside the listing session, a URL is waiting for it, and the
\* collecting loop has already kept a job.
C38_Witness ==
    /\ pc = "collecting"
    /\ workers = 1
    /\ Cardinality(drivers) = workers + 1
    /\ Queued # {}
    /\ all_jobs # <<>>

\* The positions in job_urls whose extraction gave a job, whenever it was
\* collected.
SucceededUrls ==
    {i \in 1..Len(job_urls) :
        \E k \in 1..Len(completions) :
           /\ completions[k].job.url = job_urls[i]
           /\ completions[k].kind = "success"}

\* C39: when the harvest has returned, every URL was collected exactly
\* once, and the job ids of the harvest are the job ids of the URLs whose
\* extraction gave a job, whatever the order in which the results were
\* collected.
C39_JobIdsIndependentOfOrder ==
    pc = "returned" =>
       /\ \A i \in 1..Len(job_urls) :
             Cardinality({k \in 1..Len(completions) :
                             completions[k].job.url = job_urls[i]}) = 1
       /\ {harvest[j].job_id : j \in 1..Len(harvest)}
             = {JobIdOfUrl(job_urls[i]) : i \in SucceededUrls}
       /\ seen_job_ids = {JobIdOfUrl(job_urls[i]) : i \in SucceededUrls}

\* C39 witness: three URLs were collected in an order that is not the order
\* of submission, the last submitted first; the first two collected have
\* one job id, the earlier of them gave no job and the later a job; the
\* harvest holds two job ids.
C39_Witness ==
    /\ pc = "returned"
    /\ Len(job_urls) = 3
    /\ Len(completions) = 3
    /\ completions[1].job.url = job_urls[3]
    /\ completions[1].kind = "filtered"
    /\ completions[2].kind = "success"
    /\ completions[1].job.job_id = completions[2].job.job_id
    /\ completions[3].kind = "success"
    /\ Cardinality({harvest[j].job_id : j \in 1..Len(harvest)}) = 2

\* The number of results of a kind among cs.
RECURSIVE CountKind(_, _)
CountKind(cs, kind) ==
    IF cs = <<>> THEN 0
    ELSE (IF Head(cs).kind = kind THEN 1 ELSE 0) + CountKind(Tail(cs), kind)

\* C30: each tally counts the collected results of its own kind: the error
\* tally the extractions that raised, the filtered tally the titles
\* filtered out, the no-email tally the pages without an address.
C30_TalliesMatchOutcomes ==
    /\ error_count = CountKind(completions, "error")
    /\ filtered_count = CountKind(completions, "filtered")
    /\ no_email_count = CountKind(completions, "no_email")

----------------------------------------------------------------------------
\* The browser session factory: scraper_parallel.setup_driver and
\* get_chrome_service, called by the threads of one process.

\* setup_driver(max_retries=3)
max_retries == 3

factoryRest == <<fileVars, clock, mode, pc, cycleVars, histVars, schedVars,
                 harvVars, filterVars, detailVars, searchVars, postings>>

SleepSkipped(c) == c

\* setup_driver's except: time.sleep(2) before the next attempt.
Sleep(c) == [c EXCEPT !.sleeps = @ + 1]

\* The end of a failed attempt in setup_driver's except: another attempt
\* after the pause, or the exception is raised to the caller.
Retry(t) ==
    LET c == [callers[t] EXCEPT !.failed = @ + 1]
    IN  IF c.attempt < max_retries - 1
        THEN [Sleep(c) EXCEPT !.pc = "check", !.attempt = @ + 1]
        ELSE [c EXCEPT !.pc = "raised"]

\* Thread t calls setup_driver(): the first attempt begins and calls
\* get_chrome_service(); a loop over an empty range falls through to
\* `return None`.
CallSetupDriver(t) ==
    /\ callers[t].pc = "idle"
    /\ callers' = [callers EXCEPT ![t].pc =
                      IF max_retries > 0 THEN "check" ELSE "none"]
    /\ UNCHANGED <<CHROME_SERVICE, services>>
    /\ UNCHANGED factoryRest

\* get_chrome_service: `if CHROME_SERVICE is None`.
CheckService(t) ==
    /\ callers[t].pc = "check"
    /\ callers' = [callers EXCEPT ![t].pc =
                      IF CHROME_SERVICE = 0 THEN "install" ELSE "return"]
    /\ UNCHANGED <<CHROME_SERVICE, services>>
    /\ UNCHANGED factoryRest

\* get_chrome_service: CHROME_SERVICE = Service(ChromeDriverManager().install()),
\* which creates a handle and stores it, or raises; the exception leaves
\* get_chrome_service and is caught by setup_driver's except.
InstallService(t) ==
    /\ callers[t].pc = "install"
    /\ \E ok \in BOOLEAN :
          IF ok
          THEN /\ services' = services + 1
               /\ CHROME_SERVICE' = services + 1
               /\ callers' = [callers EXCEPT ![t].pc = "return",
                                             ![t].inits = @ + 1]
          ELSE /\ callers' = [callers EXCEPT
                                 ![t] = [Retry(t) EXCEPT !.inits = @ + 1,
                                                         !.init_errors = @ + 1]]
               /\ UNCHANGED <<CHROME_SERVICE, services>>
    /\ UNCHANGED factoryRest

\* get_chrome_service: `return CHROME_SERVICE`, the global as it is now.
ReturnService(t) ==
    /\ callers[t].pc = "return"
    /\ callers' = [callers EXCEPT ![t].pc = "create",
                                  ![t].service = CHROME_SERVICE]
    /\ UNCHANGED <<CHROME_SERVICE, services>>
    /\ UNCHANGED factoryRest

\* setup_driver: webdriver.Chrome(service=service, ...) returns the driver,
\* or raises into setup_driver's except.
CreateDriver(t) ==
    /\ callers[t].pc = "create"
    /\ \E ok \in BOOLEAN :
          callers' = [callers EXCEPT
                         ![t] = IF ok THEN [@ EXCEPT !.pc = "done",
                                                     !.created = @ + 1]
                                ELSE Retry(t)]
    /\ UNCHANGED <<CHROME_SERVICE, services>>
    /\ UNCHANGED factoryRest

FactoryNext ==
    \E t \in Threads :
       \/ CallSetupDriver(t)
       \/ CheckService(t)
       \/ InstallService(t)
       \/ ReturnService(t)
       \/ CreateDriver(t)

FactorySpec == Init /\ [][FactoryNext]_vars

\* C22: whatever the interleaving of the threads that call
\* get_chrome_service, at most one service handle is ever created, and all
\* the callers that received a handle received the same one.
C22_ServiceInitializedOnce ==
    /\ services <= 1
    /\ \A t, u \in Threads :
          (callers[t].service # 0 /\ callers[u].service # 0)
             => callers[t].service = callers[u].service

\* C23: once the initialization of the service has raised in a call of
\* setup_driver, that call makes no further initialization attempt and has
\* raised to its caller.
C23_InitFailureNotRetried ==
    \A t \in Threads :
       callers[t].init_errors > 0 =>
          /\ callers[t].inits = 1
          /\ callers[t].pc = "raised"

\* C31: a call of setup_driver makes at most max_retries attempts and has
\* paused once before every attempt after the first; when it has returned,
\* it returns the one session it created, on the first attempt that did not
\* fail; when it has raised, all max_retries attempts failed and no session
\* was created; it never returns without a session.
C31_BoundedRetriesWithBackoff ==
    \A t \in Threads :
       LET c == callers[t]
       IN  /\ c.attempt < max_retries
           /\ c.sleeps = c.attempt
           /\ c.pc # "none"
           /\ c.pc = "done" => (c.created = 1 /\ c.failed = c.attempt)
           /\ c.pc = "raised" => (c.created = 0 /\ c.failed = max_retries)
           /\ c.pc \notin {"done", "raised"} =>
                 (c.created = 0 /\ c.failed = c.attempt)

\* One call has returned a session on its last attempt, after two pauses,
\* and another call has raised after its last attempt failed.
C31_Witness ==
    \E t, u \in Threads :
       /\ callers[t].pc = "done"
       /\ callers[t].attempt = max_retries - 1
       /\ callers[t].sleeps = max_retries - 1
       /\ callers[u].pc = "raised"

----------------------------------------------------------------------------
\* The relevance filter: is_relevant_job and extract_years_experience of
\* scraper_parallel.py and of scraper.py.

\* Largest min_years explored (config.py sets MIN_YEARS_EXPERIENCE = 5).
MaxMinYears == 8

\* Titles: a head, and a part stating the years (with what it states).
TitleHeads == {<<>>, <<"A", "W", "S">>, <<"i", "O", "S">>, <<"A", "W", "S", " ", "i", "O", "S">>, <<"G", "o">>}

YearsParts ==
    {[text |-> <<>>, stated |-> 0],
     [text |-> <<" ", "8", "+", " ", "y", "e", "a", "r", "s">>, stated |-> 8],
     [text |-> <<" ", "7", "-", "1", "0", " ", "y", "e", "a", "r", "s">>, stated |-> 7],
     [text |-> <<" ", "3", " ", "Y", "r", "s">>, stated |-> 3],
     [text |-> <<" ", "1", "0", "y", "r">>, stated |-> 10]}

\* The keyword lists explored for TARGET_KEYWORDS and EXCLUDE_KEYWORDS.
KeywordLists ==
    {<<>>, <<<<"a", "w", "s">>>>, <<<<"J", "a", "v", "a">>, <<"A", "W", "S">>>>,
     <<<<"J", "a", "v", "a">>, <<>>>>}
ExcludeLists == {<<>>, <<<<"i", "o", "s">>>>, <<<<"j", "u", "n", "i", "o", "r">>, <<"I", "O", "S">>>>}

\* Python `sub in t` for strings.
Contains(t, sub) ==
    \E i \in 0..(Len(t) - Len(sub)) : SubSeq(t, i + 1, i + Len(sub)) = sub

\* (?:years|yrs|yr)
Units == {<<"y", "e", "a", "r", "s">>, <<"y", "r", "s">>, <<"y", "r">>}

UnitAt(t, i) ==
    \E u \in Units :
       i + Len(u) - 1 <= Len(t) /\ SubSeq(t, i, i + Len(u) - 1) = u

\* What \d+ and \s* take at position i: the whole run of digits, of blanks.
\* (Giving characters back never lets the rest of these patterns match.)
RECURSIVE RunFrom(_, _, _)
RunFrom(t, i, chars) ==
    IF i <= Len(t) /\ t[i] \in chars THEN 1 + RunFrom(t, i + 1, chars) ELSE 0

CharAt(t, i, c) == i <= Len(t) /\ t[i] = c

\* The patterns of extract_years_experience, matched at position i.
\* 1: (\d+)\+\s*(?:years|yrs|yr)   2: (\d+)\s*(?:years|yrs|yr)
\* 3: (\d+)-\d+\s*(?:years|yrs|yr)
MatchAt(pattern, t, i) ==
    LET n == RunFrom(t, i, Digits)
        UnitAfter(k) == UnitAt(t, k + RunFrom(t, k, {" "}))
    IN  /\ n >= 1
        /\ CASE pattern = 1 -> CharAt(t, i + n, "+") /\ UnitAfter(i + n + 1)
             [] pattern = 2 -> UnitAfter(i + n)
             [] pattern = 3 ->
                  /\ CharAt(t, i + n, "-")
                  /\ RunFrom(t, i + n + 1, Digits) >= 1
                  /\ UnitAfter(i + n + 1 + RunFrom(t, i + n + 1, Digits))

\* re.search(pattern, t): group 1 of the leftmost match, <<>> without match.
Search(pattern, t) ==
    LET at == {i \in 1..Len(t) : MatchAt(pattern, t, i)}
    IN  IF at = {} THEN <<>>
        ELSE LET i == CHOOSE k \in at : \A m \in at : k <= m
             IN  SubSeq(t, i, i + RunFrom(t, i, Digits) - 1)

\* extract_years_experience(title): the patterns in their order, the first
\* that matches gives int(match.group(1)).
extract_years_experience(t) ==
    LET title_lower == Lower(t)
    IN  IF Search(1, title_lower) # <<>> THEN ParseInt(Search(1, title_lower))
        ELSE IF Search(2, title_lower) # <<>> THEN ParseInt(Search(2, title_lower))
        ELSE IF Search(3, title_lower) # <<>> THEN ParseInt(Search(3, title_lower))
        ELSE 0

\* Variant: the exclude keyword is compared as written.
ExcludeKeyAsWritten(exclude) == exclude

\* exclude.lower()
ExcludeKey(exclude) == Lower(exclude)

\* for exclude in exclude_keywords: if exclude.lower() in title_lower
Excluded(title_lower, excludes) ==
    \E k \in 1..Len(excludes) : Contains(title_lower, ExcludeKey(excludes[k]))

\* Variant: an empty keyword list is not treated apart.
NoKeywordsIgnored(kws) == FALSE

\* `if not keywords`
NoKeywords(kws) == kws = <<>>

\* for keyword in keywords: if keyword.lower() in title_lower
Matched(title_lower, kws) ==
    \E k \in 1..Len(kws) : Contains(title_lower, Lower(kws[k]))

\* scraper_parallel.is_relevant_job, the boolean of the returned pair: the
\* years are checked at the first keyword that matches, and the function
\* returns there.
is_relevant_job(t, kws, excludes, min) ==
    LET title_lower == Lower(t)
    IN  IF Excluded(title_lower, excludes) THEN FALSE
        ELSE IF NoKeywords(kws) THEN TRUE
        ELSE IF Matched(title_lower, kws)
             THEN IF min > 0
                  THEN LET years == extract_years_experience(t)
                       IN  ~(years > 0 /\ years < min)
                  ELSE TRUE
             ELSE FALSE

\* None, which no keyword equals.
NoKeyword == <<"None">>

\* The loop of scraper.is_relevant_job: matched_keyword is the first keyword
\* whose lower case occurs in the title, None when there is none.
matched_keyword(title_lower, kws) ==
    LET hits == {k \in 1..Len(kws) : Contains(title_lower, Lower(kws[k]))}
    IN  IF hits = {} THEN NoKeyword
        ELSE kws[CHOOSE k \in hits : \A m \in hits : k <= m]

\* `not matched_keyword`: None and the empty string are both false.
NotKeyword(kw) == kw = NoKeyword \/ kw = <<>>

\* scraper.is_relevant_job: the loop only finds matched_keyword, the years
\* are checked after it.
scraper_is_relevant_job(t, kws, excludes, min) ==
    LET title_lower == Lower(t)
    IN  IF Excluded(title_lower, excludes) THEN FALSE
        ELSE IF NoKeywords(kws) THEN TRUE
        ELSE IF NotKeyword(matched_keyword(title_lower, kws)) THEN FALSE
        ELSE IF min > 0 /\ extract_years_experience(t) > 0
                        /\ extract_years_experience(t) < min
             THEN FALSE
             ELSE TRUE

\* A title and a filter configuration are given.
FilterInit ==
    /\ Constructed
    /\ postings = JobRecords
    /\ \E head \in TitleHeads, part \in YearsParts :
          /\ title = head \o part.text
          /\ stated_years = part.stated
    /\ keywords \in KeywordLists
    /\ exclude_keywords \in ExcludeLists
    /\ min_years \in 0..MaxMinYears
    /\ job_years = 0
    /\ relevant = FALSE
    /\ relevant_seq = FALSE

\* The title is classified: extract_years_experience(title) and
\* is_relevant_job(title, keywords, exclude_keywords, min_years), as in
\* test_filtering and in scrape_job_detail_parallel.
ClassifyTitle ==
    /\ pc = "off"
    /\ pc' = "classified"
    /\ job_years' = extract_years_experience(title)
    /\ relevant' = is_relevant_job(title, keywords, exclude_keywords, min_years)
    /\ relevant_seq' =
          scraper_is_relevant_job(title, keywords, exclude_keywords, min_years)
    /\ UNCHANGED <<title, keywords, exclude_keywords, min_years, stated_years>>
    /\ UNCHANGED <<fileVars, clock, mode, cycleVars, histVars, schedVars,
                   harvVars, factoryVars, detailVars, searchVars, postings>>

FilterNext == ClassifyTitle

FilterSpec == FilterInit /\ [][FilterNext]_vars

\* Letters that differ only in case, and texts equal ignoring case.
CasePairs ==
    {{"a", "A"}, {"i", "I"}, {"j", "J"}, {"o", "O"}, {"s", "S"}, {"w", "W"},
     {"y", "Y"}}

EqualIgnoringCase(a, b) ==
    /\ Len(a) = Len(b)
    /\ \A i \in 1..Len(a) : a[i] = b[i] \/ {a[i], b[i]} \in CasePairs

\* sub occurs in t ignoring letter case.
OccursIgnoringCase(t, sub) ==
    \E i \in 0..(Len(t) - Len(sub)) :
       EqualIgnoringCase(SubSeq(t, i + 1, i + Len(sub)), sub)

AnyOccurs(t, kws) == \E k \in 1..Len(kws) : OccursIgnoringCase(t, kws[k])

\* C25: a title in which an exclude keyword occurs, ignoring case, is
\* rejected by both filters, whatever the target keywords, the minimum and
\* the years the title states.
C25_ExcludeAlwaysRejects ==
    (pc = "classified" /\ AnyOccurs(title, exclude_keywords))
       => (~relevant /\ ~relevant_seq)

\* C25 witness: the title holds an exclude keyword in another letter case
\* and a target keyword, states years above the minimum, and is rejected.
C25_Witness ==
    /\ pc = "classified"
    /\ AnyOccurs(title, exclude_keywords)
    /\ ~Contains(title, exclude_keywords[Len(exclude_keywords)])
    /\ AnyOccurs(title, keywords)
    /\ min_years > 0
    /\ stated_years >= min_years
    /\ ~relevant
    /\ ~relevant_seq

\* C26: the years extracted from a title are the leading integer of the
\* years it states: 8 for "8+ years", 7 for "7-10 years", and 0 for a
\* title that states none.
C26_ExtractYearsLeadingInteger ==
    pc = "classified" => job_years = stated_years

\* C27: a title without exclude keyword and with a target keyword, under a
\* minimum above 0, is rejected exactly when it states years and they are
\* below the minimum.
C27_RejectedIffYearsBelowMinimum ==
    (/\ pc = "classified"
     /\ ~AnyOccurs(title, exclude_keywords)
     /\ AnyOccurs(title, keywords)
     /\ min_years > 0)
       => /\ ~relevant <=> (stated_years > 0 /\ stated_years < min_years)
          /\ ~relevant_seq <=> (stated_years > 0 /\ stated_years < min_years)

\* C28: with no exclude keyword and no target keyword every title is
\* accepted, for every minimum and whatever years the title states.
C28_EmptyConfigurationAcceptsAll ==
    (pc = "classified" /\ exclude_keywords = <<>> /\ keywords = <<>>)
       => (relevant /\ relevant_seq)

\* C28 witness: both lists are empty, the title states years below the
\* minimum, and the title is accepted.
C28_Witness ==
    /\ pc = "classified"
    /\ exclude_keywords = <<>>
    /\ keywords = <<>>
    /\ stated_years > 0
    /\ stated_years < min_years
    /\ relevant
    /\ relevant_seq

\* C40: scraper.is_relevant_job and the decision of
\* scraper_parallel.is_relevant_job accept and reject the same titles, for
\* every title, keyword list, exclude list and minimum.
C40_FiltersAgree ==
    pc = "classified" => (relevant = relevant_seq)

----------------------------------------------------------------------------
\* The detail extractor: scrape_job_detail_parallel on one detail page,
\* from the title to the returned (job, status_message).

\* excluded_emails of extract_email: the addresses of the site itself.
excluded_emails == {<<"s">>}

\* What re.findall(email_pattern, page_text) can give: no address, the
\* site's address, a contact address, or the site's address before a
\* contact address.
PageMatches ==
    {<<>>, <<(<<"S">>)>>, <<(<<"A">>)>>, <<(<<"S">>), (<<"A">>)>>}

\* extract_email: the first match that is not an excluded address, or
\* None (the empty text).
RECURSIVE extract_email(_)
extract_email(ms) ==
    IF ms = <<>> THEN <<>>
    ELSE IF Lower(Head(ms)) \notin excluded_emails THEN Head(ms)
    ELSE extract_email(Tail(ms))

\* Variant: the address scan comes before the relevance test.
DetailResultScanFirst(is_relevant, ms) ==
    IF extract_email(ms) = <<>>
    THEN [kind |-> "no_email", email |-> <<>>, scanned |-> TRUE]
    ELSE IF ~is_relevant
         THEN [kind |-> "filtered", email |-> <<>>, scanned |-> TRUE]
         ELSE [kind |-> "success", email |-> extract_email(ms),
               scanned |-> TRUE]

\* STEP 1 and STEP 2 of scrape_job_detail_parallel: `if not is_relevant`
\* returns before page_text is taken and scanned; `if not email` returns
\* after the scan.
DetailResult(is_relevant, ms) ==
    IF ~is_relevant
    THEN [kind |-> "filtered", email |-> <<>>, scanned |-> FALSE]
    ELSE IF extract_email(ms) = <<>>
         THEN [kind |-> "no_email", email |-> <<>>, scanned |-> TRUE]
         ELSE [kind |-> "success", email |-> extract_email(ms),
               scanned |-> TRUE]

\* scrape_job_detail_parallel(detail_url) on a page with the title `title`
\* and the addresses `ms`: the page load raises, or the page is classified.
ScrapeJobDetail ==
    /\ pc = "off"
    /\ pc' = "extracted"
    /\ \E raises \in BOOLEAN, ms \in PageMatches :
          /\ matches' = ms
          /\ IF raises
             THEN /\ detail' = [kind |-> "error", email |-> <<>>,
                                status_message |-> status_message("error")]
                  /\ scanned' = FALSE
                  /\ UNCHANGED <<relevant, job_years>>
             ELSE LET is_relevant == is_relevant_job(title, keywords,
                                                     exclude_keywords, min_years)
                      r == DetailResult(is_relevant, ms)
                  IN  /\ relevant' = is_relevant
                      /\ job_years' = extract_years_experience(title)
                      /\ scanned' = r.scanned
                      /\ detail' = [kind |-> r.kind, email |-> r.email,
                                    status_message |-> status_message(r.kind)]
    /\ UNCHANGED <<title, keywords, exclude_keywords, min_years, stated_years,
                   relevant_seq>>
    /\ UNCHANGED <<fileVars, clock, mode, cycleVars, histVars, schedVars,
                   harvVars, factoryVars, searchVars, postings>>

DetailNext == ScrapeJobDetail

DetailSpec == FilterInit /\ [][DetailNext]_vars

\* A page without a contact address: every address found is the site's own.
NoContactAddress ==
    \A k \in 1..Len(matches) : Lower(matches[k]) \in excluded_emails

\* C33: when a page has been extracted without an exception, a title the
\* relevance filter rejects gives Filtered and the page text was not scanned
\* for an address, whether or not the page has a contact address; NoContact
\* is returned only for a title that passed the filter (and a page without
\* a contact address).
C33_FilteredBeforeAddressScan ==
    (pc = "extracted" /\ detail.kind # "error") =>
       LET passes == is_relevant_job(title, keywords, exclude_keywords,
                                     min_years)
       IN  /\ ~passes => (detail.kind = "filtered" /\ ~scanned)
           /\ detail.kind = "no_email" => (passes /\ NoContactAddress)
           /\ HasNoEmailText(detail.status_message) <=>
                 detail.kind = "no_email"

\* A page whose title fails the filter and that has no contact address was
\* classified Filtered.
C33_Witness ==
    /\ pc = "extracted"
    /\ ~is_relevant_job(title, keywords, exclude_keywords, min_years)
    /\ NoContactAddress
    /\ detail.kind = "filtered"
    /\ ~scanned

----------------------------------------------------------------------------
\* The pace of the dispatch loops: the entry points of Spec over a site
\* with three postings of different job ids and addresses, enough for a
\* cycle to go on after MAX_APPLICATIONS_PER_DAY sends.

PaceRecords ==
    {[job_id |-> <<"1">>, email |-> <<"A">>],
     [job_id |-> <<"2">>, email |-> <<"b">>],
     [job_id |-> <<"3", "x">>, email |-> <<"c">>]}

PaceInit ==
    /\ Constructed
    /\ postings = PaceRecords
    /\ FilterIdle

PaceSpec == PaceInit /\ [][Next]_vars

\* C29: whenever a send is about to be made and an attempt was made earlier
\* in the cycle, the delay has been waited since that attempt.
C29_DelayAfterEveryAttempt ==
    (pc = "send" /\ attempts # <<>>) => waited

----------------------------------------------------------------------------
\* The ledger file under the appends of the dispatch loops: the entry points
\* of Spec over a site whose detail links carry the job ids 01 and 2 (the
\* links are matched with job_details\.jsp\?id=\d+).

LedgerRecords ==
    {[job_id |-> <<"0", "1">>, email |-> <<"A">>],
     [job_id |-> <<"2">>, email |-> <<"b">>]}

LedgerInit ==
    /\ Constructed
    /\ postings = LedgerRecords
    /\ FilterIdle

LedgerSpec == LedgerInit /\ [][Next]_vars

\* Order of two applied_date cells, '%Y-%m-%d %H:%M:%S' texts.
DateLeq(a, b) ==
    \/ a[1] < b[1]
    \/ a[1] = b[1] /\ a[2] < b[2]
    \/ a[1] = b[1] /\ a[2] = b[2] /\ a[3] <= b[3]

\* C32: every step that changes the ledger file adds exactly one row at the
\* end and leaves the rows it held unchanged and in place, and after every
\* step the applied_date cells are non-decreasing in row order.
C32_LedgerAppendOnlyAndOrdered ==
    [][ /\ csv_rows' # csv_rows =>
              /\ Len(csv_rows') = Len(csv_rows) + 1
              /\ SubSeq(csv_rows', 1, Len(csv_rows)) = csv_rows
        /\ \A k \in 1..(Len(csv_rows') - 1) :
              DateLeq(csv_rows'[k].applied_date, csv_rows'[k + 1].applied_date)
      ]_vars

----------------------------------------------------------------------------
\* Legacy keyword mode: scraper.scrape_jobs_with_search, one search with its
\* pagination loop, in one browser session.

\* config.py: MAX_PAGES_PER_SEARCH = 5
MAX_PAGES_PER_SEARCH == 5

\* Largest number of detail links on a page.
MaxUrlsPerPage == 2

\* The pages the site can show after the search or after a click on Next.
SitePages ==
    {Page(kind, urls, next) : kind \in {"results", "detail"},
                              urls \in 0..MaxUrlsPerPage, next \in BOOLEAN}

\* scrape_jobs_with_search up to the loop: setup_driver() raises (the except
\* returns the empty list, there is no session to quit), or
\* search_jobs_on_nvoids returns False (return, and finally quits the
\* session), or the results of the search are displayed.
SearchJobs ==
    /\ pc = "off"
    /\ search_driver = "none"
    /\ \E what \in {"setup_raises", "search_fails", "searched"},
          first \in SitePages :
          CASE what = "setup_raises" ->
                  /\ pc' = "returned"
                  /\ UNCHANGED <<search_driver, shown>>
            [] what = "search_fails" ->
                  /\ pc' = "returned"
                  /\ search_driver' = "quit"
                  /\ UNCHANGED shown
            [] what = "searched" ->
                  /\ pc' = "page"
                  /\ search_driver' = "open"
                  /\ shown' = first
    /\ UNCHANGED <<page_num, pages, found, lastNext>>
    /\ UNCHANGED <<fileVars, clock, mode, cycleVars, histVars, schedVars,
                   harvVars, factoryVars, filterVars, detailVars, postings>>

\* Variant: the loop goes on when no Next link is found.
AfterNextLookupGoesOn(present) == "page"

\* try: find_element(By.LINK_TEXT, "Next").click() / except: break
AfterNextLookup(present) == IF present THEN "page" ELSE "returned"

\* One iteration of `for page_num in range(MAX_PAGES_PER_SEARCH)`: the
\* detail links of the displayed page; none: break. Otherwise every link is
\* loaded in the same session by scrape_job_detail (which returns a job or
\* None), so the session then displays a detail page; unless this was the
\* last iteration, the Next link is looked for on the displayed page and
\* clicked, and a failure of either breaks the loop. After the loop the
\* function returns and its finally quits the session.
ScrapePage ==
    /\ pc = "page"
    /\ IF shown.urls = 0
       THEN /\ pc' = "returned"
            /\ search_driver' = "quit"
            /\ UNCHANGED <<page_num, shown, pages, found, lastNext>>
       ELSE \E got \in 0..shown.urls, present \in BOOLEAN, after \in SitePages :
               /\ pages' = pages + 1
               /\ found' = found + got
               /\ IF page_num < MAX_PAGES_PER_SEARCH - 1
                  THEN /\ lastNext' = IF present THEN "clicked" ELSE "absent"
                       /\ pc' = AfterNextLookup(present)
                       /\ IF AfterNextLookup(present) = "page"
                          THEN /\ page_num' = page_num + 1
                               /\ shown' = IF present THEN after
                                           ELSE Page("detail", 0, FALSE)
                               /\ UNCHANGED search_driver
                          ELSE /\ shown' = Page("detail", 0, FALSE)
                               /\ search_driver' = "quit"
                               /\ UNCHANGED page_num
                  ELSE /\ lastNext' = "not_looked"
                       /\ pc' = "returned"
                       /\ shown' = Page("detail", 0, present)
                       /\ search_driver' = "quit"
                       /\ UNCHANGED page_num
    /\ UNCHANGED <<fileVars, clock, mode, cycleVars, histVars, schedVars,
                   harvVars, factoryVars, filterVars, detailVars, postings>>

SearchNext == SearchJobs \/ ScrapePage

SearchSpec == Init /\ [][SearchNext]_vars

\* The search is not suspended for ever: the function is one thread of
\* control whose waits are time.sleep calls.
SearchRunSpec == SearchSpec /\ WF_vars(SearchNext)

\* C34: the search returns; it processes at most MAX_PAGES_PER_SEARCH
\* pages; an iteration that finds no Next link, or whose page has no detail
\* links, is the last one; and when the search has returned, its session is
\* not open.
C34_PaginationTerminates ==
    /\ [](pages <= MAX_PAGES_PER_SEARCH)
    /\ [](lastNext = "absent" => pc = "returned")
    /\ [][(pc = "page" /\ shown.urls = 0) =>
             (pc' = "returned" /\ pages' = pages)]_vars
    /\ [](pc = "returned" => search_driver # "open")
    /\ <>(pc = "returned")

\* A search has returned after two pages because no Next link was found,
\* and its session is quit.
C34_Witness ==
    /\ pc = "returned"
    /\ pages = 2
    /\ lastNext = "absent"
    /\ search_driver = "quit"
====
